---- MODULE Spec2Model ----
(***************************************************************************)
(* A model of the multilog logging engine (phani-kb/multilog):             *)
(*   - the severity gate of a sink (CustomHandler.Enabled),                *)
(*   - the record-dispatch core (Aggregator) and NewLogger,                *)
(*   - the Handle pipeline of the text sinks (CustomHandler.Handle) and of *)
(*     the JSON sink (JSONHandler.Handle), step by step, so that           *)
(*     concurrent Handle calls on one sink interleave,                     *)
(*   - the pattern formatter of the text sinks (getPatternForLevel,        *)
(*     GetPlaceholderValues, buildOutput) and the merge of the JSON sink,  *)
(*   - the configuration builder (validateHandlers,                        *)
(*     GetCustomHandlerOptionsForHandler, CreateHandlers),                 *)
(*   - the log calls of the Logger facade.                                 *)
(***************************************************************************)
EXTENDS Integers, Sequences, FiniteSets, TLC

VARIABLES
  handlers,   \* the handlers given to NewLogger, in call order
  loggers,    \* loggers[k]: the Aggregator (sequence of children) of logger k
  last,       \* what the last aggregator operation did and returned
  sink,       \* the options and wiring of the sink under test
  recLevels,  \* the severities of the records the callers send to the sink
  sb,         \* the sink's working buffer (strings.Builder), shared
  mu,         \* holder of the sink's mutex CustomHandler.mu (0 = unlocked)
  writer,     \* the sink's bufio.Writer: buffered lines, flushed lines, sticky error
  pc,         \* pc[g]: position of goroutine g inside Handle
  rec,        \* rec[g]: the record goroutine g is handling
  loc,        \* loc[g]: Handle's locals of goroutine g (values, output)
  ret,        \* ret[g]: what the last Handle of goroutine g returned
  ncalls,     \* number of Handle calls started so far
  lockOrder,  \* record ids, in the order their calls acquired the sink's mutex
  opts,       \* the CustomHandlerOptions of the sink whose lines are rendered
  rendered,   \* the last record rendered with opts, and its line
  config,     \* the handler entries of the configuration (Config.Multilog.Handlers)
  built,      \* what the last operation of the configuration builder returned
  facade      \* the log calls made on the Logger and how the last one ended

aggVars == <<handlers, loggers, last>>
sinkVars == <<sink, recLevels, sb, mu, writer, pc, rec, loc, ret, ncalls, lockOrder>>
renderVars == <<opts, rendered>>
configVars == <<config, built>>
restVars == <<opts, rendered, config, built, facade>>
vars == <<handlers, loggers, last, sink, recLevels, sb, mu, writer, pc, rec, loc, ret, ncalls, lockOrder,
          opts, rendered, config, built, facade>>

Nil == "nil"

----------------------------------------------------------------------------
(* Bounds of the model.                                                    *)

MaxHandlers == 2
MaxLoggers == 2
NumProcs == 2
MaxCalls == 3

----------------------------------------------------------------------------
(* Severity model.                                                         *)

LevelDebug == -4

LevelPerf_BelowDebug == LevelDebug - 4

LevelPerf == -1

LevelInfo == 0
LevelWarn == 4
LevelError == 8

DefaultSLogLevel == LevelInfo

Levels == {LevelDebug, LevelPerf, LevelInfo, LevelWarn, LevelError}

LevelNames == {"debug", "info", "warn", "error", "perf"}

LevelMap ==
  [n \in LevelNames |->
     CASE n = "debug" -> LevelDebug
       [] n = "info"  -> LevelInfo
       [] n = "warn"  -> LevelWarn
       [] n = "error" -> LevelError
       [] n = "perf"  -> LevelPerf]

GetSlogLevel_PerfLowest(level) ==
  IF level = "perf" THEN LevelDebug - 4
  ELSE IF level \in DOMAIN LevelMap THEN LevelMap[level] ELSE DefaultSLogLevel

GetSlogLevel(level) ==
  IF level \in DOMAIN LevelMap THEN LevelMap[level] ELSE DefaultSLogLevel

\* CustomHandler.Enabled: the inner slog handler's gate (level >= configured
\* level) and the options' enabled flag.
HandlerEnabled(h, level) ==
  level >= GetSlogLevel(h.level) /\ h.enabled

----------------------------------------------------------------------------
(* Aggregator and NewLogger.                                               *)

WrapperTypes == {"console", "file", "json"}
HandlerTypes == WrapperTypes \cup {"custom"}

RECURSIVE SeqsUpTo(_, _)
SeqsUpTo(S, n) ==
  IF n = 0 THEN {<<>>}
  ELSE LET shorter == SeqsUpTo(S, n - 1)
       IN shorter \cup { Append(s, x) : s \in {t \in shorter : Len(t) = n - 1}, x \in S }

\* A handler: its Go type, the type held in a wrapper's Handler field, the
\* options' level and enabled flag, the attrs and groups attached to its
\* serializer, and whether its writer is broken (every write fails).
MakeHandler(t, i, l, e, f) ==
  [typ |-> t, inner |-> i, level |-> l, enabled |-> e, ctx |-> <<>>, broken |-> f]

\* The children given to NewAggregator: console sinks at level info and file
\* sinks at level debug, enabled or not, with a working or a broken writer.
AggregatorChildren ==
  { MakeHandler("console", "custom", "info", e, f) : e \in BOOLEAN, f \in BOOLEAN }
  \cup
  { MakeHandler("file", "custom", "debug", e, f) : e \in BOOLEAN, f \in BOOLEAN }

\* The handlers given to NewLogger: a ConsoleHandler, FileHandler or
\* JSONHandler whose Handler field holds a *CustomHandler or another
\* CustomHandlerInterface implementation, or a handler of any other type
\* (a bare *CustomHandler).
LoggerHandlers ==
  { MakeHandler(t, i, "info", e, FALSE) :
      t \in WrapperTypes, i \in {"custom", "mock"}, e \in BOOLEAN }
  \cup
  { MakeHandler("custom", "custom", "info", e, FALSE) : e \in BOOLEAN }

\* The handler list, each handler tagged with its position (its identity).
Tagged(hs) ==
  [i \in 1..Len(hs) |->
     [id |-> i, typ |-> hs[i].typ, inner |-> hs[i].inner, level |-> hs[i].level,
      enabled |-> hs[i].enabled, ctx |-> hs[i].ctx, broken |-> hs[i].broken]]

\* NewAggregator(handlers...): the aggregator is the slice itself.
NewAggregator(hs) == hs

\* One iteration of NewLogger's loop: the type switch.
KeepHandler_EnabledOnly(h) ==
  h.inner = "custom" /\ h.enabled

KeepHandler(h) ==
  IF h.typ \in WrapperTypes
  THEN h.inner = "custom" /\ h.enabled
  ELSE TRUE

RECURSIVE NewLoggerLoop(_, _, _)
NewLoggerLoop(hs, i, enabledHandlers) ==
  IF i > Len(hs) THEN enabledHandlers
  ELSE NewLoggerLoop(hs, i + 1,
         IF KeepHandler(hs[i]) THEN Append(enabledHandlers, hs[i]) ELSE enabledHandlers)

\* Aggregator.Enabled: the loop over the children, from child i on; the
\* first child that admits the level decides.
RECURSIVE AggregatorEnabled_FirstOnly(_, _, _)
AggregatorEnabled_FirstOnly(a, level, i) ==
  IF i > Len(a) THEN FALSE
  ELSE HandlerEnabled(a[i], level)

RECURSIVE AggregatorEnabled(_, _, _)
AggregatorEnabled(a, level, i) ==
  IF i > Len(a) THEN FALSE
  ELSE IF HandlerEnabled(a[i], level) THEN TRUE
  ELSE AggregatorEnabled(a, level, i + 1)

\* The outcome of one child's Handle inside the fan-out: a child with a
\* broken writer fails with its own error, any other child emits one line
\* that carries the child's attrs and groups.
ChildHandle(h, i, level) ==
  IF h.broken
  THEN [err |-> <<"error", i>>, lines |-> <<>>]
  ELSE [err |-> Nil, lines |-> <<[id |-> h.id, level |-> level, ctx |-> h.ctx]>>]

\* Aggregator.Handle: the loop over the children, from child i on.
RECURSIVE AggregatorHandle_Abort(_, _, _, _)
AggregatorHandle_Abort(a, level, i, st) ==
  IF i > Len(a) \/ st.firstErr # Nil THEN st
  ELSE IF HandlerEnabled(a[i], level)
  THEN LET out == ChildHandle(a[i], i, level)
       IN AggregatorHandle_Abort(a, level, i + 1,
            [calls |-> [st.calls EXCEPT ![i] = @ + 1],
             firstErr |-> IF out.err # Nil /\ st.firstErr = Nil THEN out.err ELSE st.firstErr,
             lines |-> st.lines \o out.lines])
  ELSE AggregatorHandle_Abort(a, level, i + 1, st)

RECURSIVE AggregatorHandle_LastErr(_, _, _, _)
AggregatorHandle_LastErr(a, level, i, st) ==
  IF i > Len(a) THEN st
  ELSE IF HandlerEnabled(a[i], level)
  THEN LET out == ChildHandle(a[i], i, level)
       IN AggregatorHandle_LastErr(a, level, i + 1,
            [calls |-> [st.calls EXCEPT ![i] = @ + 1],
             firstErr |-> IF out.err # Nil THEN out.err ELSE st.firstErr,
             lines |-> st.lines \o out.lines])
  ELSE AggregatorHandle_LastErr(a, level, i + 1, st)

RECURSIVE AggregatorHandle(_, _, _, _)
AggregatorHandle(a, level, i, st) ==
  IF i > Len(a) THEN st
  ELSE IF HandlerEnabled(a[i], level)
  THEN LET out == ChildHandle(a[i], i, level)
       IN AggregatorHandle(a, level, i + 1,
            [calls |-> [st.calls EXCEPT ![i] = @ + 1],
             firstErr |-> IF out.err # Nil /\ st.firstErr = Nil THEN out.err ELSE st.firstErr,
             lines |-> st.lines \o out.lines])
  ELSE AggregatorHandle(a, level, i + 1, st)

\* CustomHandler.WithAttrs / WithGroup, reached through the wrapper's
\* WithAttrs / WithGroup: a new *CustomHandler that holds the derived
\* serializer and shares the options and the writer.
HandlerDerive(h, item) ==
  [h EXCEPT !.typ = "custom", !.ctx = Append(@, item)]

\* Aggregator.WithAttrs / WithGroup on logger k: a fresh slice that holds the
\* children's derivations; the new aggregator becomes the next logger.
AggregatorDerive_InPlace(lgs, k, item) ==
  LET derived == [i \in 1..Len(lgs[k]) |-> HandlerDerive(lgs[k][i], item)]
  IN Append([lgs EXCEPT ![k] = derived], NewAggregator(derived))

AggregatorDerive(lgs, k, item) ==
  LET derived == [i \in 1..Len(lgs[k]) |-> HandlerDerive(lgs[k][i], item)]
  IN Append(lgs, NewAggregator(derived))

AttrItem == [kind |-> "attr", name |-> "a"]
GroupItem == [kind |-> "group", name |-> "g"]

\* The levels of the records sent through the aggregator.
RecordLevels == {LevelDebug, LevelInfo}

NoOp == [op |-> "none"]

SinkIdle ==
  /\ sink = Nil /\ recLevels = {} /\ sb = <<>> /\ mu = 0 /\ writer = Nil
  /\ pc = <<>> /\ rec = <<>> /\ loc = <<>> /\ ret = <<>>
  /\ ncalls = 0 /\ lockOrder = <<>>

AggInit ==
  /\ handlers = <<>>
  /\ loggers = <<>>
  /\ last = NoOp

RenderIdle == opts = Nil /\ rendered = Nil

ConfigIdle == config = <<>> /\ built = Nil

FacadeIdle == facade = Nil

RestIdle == RenderIdle /\ ConfigIdle /\ FacadeIdle

\* NewAggregator(handlers...)
NewAggregatorCall(hs) ==
  /\ loggers = <<>>
  /\ handlers' = Tagged(hs)
  /\ loggers' = <<NewAggregator(Tagged(hs))>>
  /\ last' = [op |-> "NewAggregator"]
  /\ UNCHANGED sinkVars
  /\ UNCHANGED restVars

\* NewLogger(handlers...)
NewLogger(hs) ==
  /\ loggers = <<>>
  /\ handlers' = Tagged(hs)
  /\ loggers' = <<NewAggregator(NewLoggerLoop(Tagged(hs), 1, <<>>))>>
  /\ last' = [op |-> "NewLogger"]
  /\ UNCHANGED sinkVars
  /\ UNCHANGED restVars

\* Aggregator.Enabled(ctx, level) on logger k
Enabled(k, level) ==
  /\ k \in DOMAIN loggers
  /\ last' = [op |-> "Enabled", lg |-> k, level |-> level,
              ret |-> AggregatorEnabled(loggers[k], level, 1)]
  /\ UNCHANGED <<handlers, loggers>>
  /\ UNCHANGED sinkVars
  /\ UNCHANGED restVars

\* Aggregator.Handle(ctx, r) on logger k
Handle(k, level) ==
  /\ k \in DOMAIN loggers
  /\ LET a == loggers[k]
         st == AggregatorHandle(a, level, 1,
                 [calls |-> [i \in DOMAIN a |-> 0], firstErr |-> Nil, lines |-> <<>>])
     IN last' = [op |-> "Handle", lg |-> k, level |-> level,
                 calls |-> st.calls, ret |-> st.firstErr, lines |-> st.lines]
  /\ UNCHANGED <<handlers, loggers>>
  /\ UNCHANGED sinkVars
  /\ UNCHANGED restVars

\* Aggregator.WithAttrs(attrs) on logger k
WithAttrs(k) ==
  /\ k \in DOMAIN loggers
  /\ Len(loggers) < MaxLoggers
  /\ loggers' = AggregatorDerive(loggers, k, AttrItem)
  /\ last' = [op |-> "WithAttrs", lg |-> k, new |-> Len(loggers) + 1, item |-> AttrItem,
              before |-> loggers[k]]
  /\ UNCHANGED handlers
  /\ UNCHANGED sinkVars
  /\ UNCHANGED restVars

\* Aggregator.WithGroup(name) on logger k
WithGroup(k) ==
  /\ k \in DOMAIN loggers
  /\ Len(loggers) < MaxLoggers
  /\ loggers' = AggregatorDerive(loggers, k, GroupItem)
  /\ last' = [op |-> "WithGroup", lg |-> k, new |-> Len(loggers) + 1, item |-> GroupItem,
              before |-> loggers[k]]
  /\ UNCHANGED handlers
  /\ UNCHANGED sinkVars
  /\ UNCHANGED restVars

Init == AggInit /\ SinkIdle /\ RestIdle

Next ==
  \/ \E hs \in SeqsUpTo(AggregatorChildren, MaxHandlers) : NewAggregatorCall(hs)
  \/ \E k \in 1..MaxLoggers, level \in RecordLevels : Enabled(k, level)
  \/ \E k \in 1..MaxLoggers, level \in RecordLevels : Handle(k, level)
  \/ \E k \in 1..MaxLoggers : WithAttrs(k)
  \/ \E k \in 1..MaxLoggers : WithGroup(k)

Spec == Init /\ [][Next]_vars

LoggerNext ==
  \E hs \in SeqsUpTo(LoggerHandlers, MaxHandlers) : NewLogger(hs)

LoggerSpec == Init /\ [][LoggerNext]_vars

----------------------------------------------------------------------------
(* One sink and the goroutines that call its Handle.                       *)

Procs == 1..NumProcs

\* The types whose Handle is CustomHandler.Handle: the console and file
\* wrappers and a *CustomHandler itself.
TextTypes == {"console", "file", "custom"}

\* The stage prefixes of the errors CustomHandler.Handle returns.
CustomHandlerError_Unwrapped(stage) ==
  CASE stage = "serialize" -> "mock error"
    [] stage = "write"     -> "write error"
    [] stage = "flush"     -> "flush error"

CustomHandlerError(stage) ==
  CASE stage = "serialize" -> "failed to handle record"
    [] stage = "write"     -> "failed to write log message"
    [] stage = "flush"     -> "failed to flush writer"

\* The errors JSONHandler.Handle returns.
JSONHandlerError(stage) ==
  CASE stage = "serialize" -> "failed to handle record"
    [] stage = "unmarshal" -> "failed to unmarshal values"
    [] stage = "write"     -> "failed to write log message"
    [] stage = "flush"     -> "failed to flush writer"
    [] stage = "nowriter"  -> "no writer available"
    [] stage = "custom"    -> "custom write error"

HandleError(s, stage) ==
  IF s.typ \in TextTypes THEN CustomHandlerError(stage) ELSE JSONHandlerError(stage)

\* Which mutex Handle locks: CustomHandler.Handle locks the ch.mu of its
\* receiver, which is the sink's mutex unless the receiver was made by
\* WithAttrs or WithGroup; JSONHandler.Handle locks a sync.Mutex it has
\* just declared in the call.
LocksSinkMutex_Never(s) == FALSE

LocksSinkMutex(s) == s.typ \in TextTypes /\ s.mutex = "sink"

\* CustomHandler.WithAttrs / WithGroup, which the WithAttrs / WithGroup of
\* every wrapper returns: a new *CustomHandler with the options, the
\* working buffer and the writer of the receiver, the derived serializer
\* and a mutex of its own.
CustomHandler_WithAttrs(s) == [s EXCEPT !.typ = "custom", !.mutex = "new"]

\* The format of the inner serializer NewJSONHandler gives a JSON sink.
NewJSONHandlerSerializer == "json"

\* The serializer's output for one record: the record's level key (until
\* GetKeyValue removes it) and the record's attributes, as text fields or
\* as one JSON document.
Fragment(s, r) == [rec |-> r.id, lvl |-> TRUE, json |-> s.inner = "json"]

\* Index of the first fragment of the buffer that still has its level key
\* (0 if there is none): what the text GetKeyValue finds among the fields;
\* in a JSON document it finds no field that starts with "level=".
RECURSIVE FirstLevelKey(_, _)
FirstLevelKey(buf, i) ==
  IF i > Len(buf) THEN 0
  ELSE IF buf[i].lvl /\ ~buf[i].json THEN i
  ELSE FirstLevelKey(buf, i + 1)

\* json.Unmarshal of the buffer succeeds when it holds one document.
ValidJSON(buf) == Len(buf) = 1 /\ buf[1].json

\* getKeyValue(slog.LevelKey, sb, true): the value found (the record it
\* belongs to, 0 for the empty string) and the buffer without the key.
GetKeyValue(s, buf) ==
  IF s.typ \in TextTypes
  THEN LET i == FirstLevelKey(buf, 1)
       IN IF i = 0 THEN [value |-> 0, buf |-> buf]
          ELSE [value |-> buf[i].rec, buf |-> [buf EXCEPT ![i].lvl = FALSE]]
  ELSE IF ValidJSON(buf) /\ buf[1].lvl
       THEN [value |-> buf[1].rec, buf |-> [buf EXCEPT ![1].lvl = FALSE]]
       ELSE [value |-> 0, buf |-> buf]

\* The ids of the records whose attributes are in the buffer.
Residue(buf) == [i \in 1..Len(buf) |-> buf[i].rec]

\* buildOutput: the message of the record, the resolved level value and the
\* residue of the working buffer.
BuildOutput(r, values, buf) ==
  [msg |-> r.id, level |-> values.level, residue |-> Residue(buf), format |-> "pattern"]

\* JSONHandler.Handle, merge: the document of the buffer is unmarshalled
\* over the value map, so its keys win.
MergeJSON(r, values, buf) ==
  [msg |-> r.id,
   level |-> IF buf[1].lvl THEN buf[1].rec ELSE values.level,
   residue |-> Residue(buf),
   format |-> "json"]

NoLocals == [level |-> 0, output |-> Nil, trail |-> <<>>, failed |-> Nil]

NoRecord == [id |-> 0, level |-> LevelInfo, admitted |-> FALSE]

\* The sinks of the sequential runs: every type, every level name (and a
\* name LevelMap does not know), enabled or not; a JSON sink also without
\* a bufio writer, with or without a CustomWrite method, and a JSONHandler
\* put around the handler NewCustomHandler returns.
SinkConfigs ==
  { [typ |-> t, level |-> l, enabled |-> e, writer |-> "bufio", customWrite |-> FALSE, mutex |-> "sink", derived |-> {},
     inner |-> IF t = "json" THEN NewJSONHandlerSerializer ELSE "text"] :
      t \in TextTypes \cup {"json"}, l \in LevelNames \cup {"trace"}, e \in BOOLEAN }
  \cup
  { [typ |-> "json", level |-> "debug", enabled |-> TRUE, writer |-> "none", customWrite |-> c, mutex |-> "sink", derived |-> {},
     inner |-> NewJSONHandlerSerializer] : c \in BOOLEAN }
  \cup
  { [typ |-> "json", level |-> "debug", enabled |-> TRUE, writer |-> "bufio", customWrite |-> FALSE, mutex |-> "sink", derived |-> {},
     inner |-> "text"] }

\* The text sinks of the concurrent runs.
ConcurrentSinkConfigs ==
  { [typ |-> t, level |-> "info", enabled |-> TRUE, writer |-> "bufio", customWrite |-> FALSE, mutex |-> "sink", derived |-> {},
     inner |-> "text"] : t \in TextTypes }

\* The JSON sink of the concurrent runs.
ConcurrentJSONConfigs ==
  { [typ |-> "json", level |-> l, enabled |-> TRUE, writer |-> "bufio", customWrite |-> FALSE, mutex |-> "sink", derived |-> {},
     inner |-> NewJSONHandlerSerializer] : l \in {"debug", "info"} }

\* The handler goroutine g calls: the sink, or for the goroutines of
\* sink.derived the handler that WithAttrs returned for it.
Via(g) == IF g \in sink.derived THEN CustomHandler_WithAttrs(sink) ELSE sink

SinkStart(active) ==
  /\ sb = <<>>
  /\ mu = 0
  /\ writer = [buf |-> <<>>, out |-> <<>>, err |-> FALSE]
  /\ pc = [g \in Procs |-> IF g \in active THEN "idle" ELSE "off"]
  /\ rec = [g \in Procs |-> NoRecord]
  /\ loc = [g \in Procs |-> NoLocals]
  /\ ret = [g \in Procs |-> Nil]
  /\ ncalls = 0
  /\ lockOrder = <<>>

\* Handle(ctx, record) is called: the level gate.
Start(g) ==
  /\ pc[g] \in {"idle", "done"}
  /\ ncalls < MaxCalls
  /\ \E level \in recLevels :
       LET admitted == HandlerEnabled(sink, level)
       IN /\ rec' = [rec EXCEPT ![g] = [id |-> ncalls + 1, level |-> level, admitted |-> admitted]]
          /\ pc' = [pc EXCEPT ![g] = IF admitted THEN "lock" ELSE "done"]
  /\ ncalls' = ncalls + 1
  /\ loc' = [loc EXCEPT ![g] = NoLocals]
  /\ ret' = [ret EXCEPT ![g] = Nil]
  /\ UNCHANGED <<sink, recLevels, sb, mu, writer, lockOrder>>
  /\ UNCHANGED aggVars
  /\ UNCHANGED restVars

\* mu.Lock()
Lock(g) ==
  /\ pc[g] = "lock"
  /\ IF LocksSinkMutex(Via(g))
     THEN /\ mu = 0
          /\ mu' = g
          /\ lockOrder' = Append(lockOrder, rec[g].id)
     ELSE UNCHANGED <<mu, lockOrder>>
  /\ pc' = [pc EXCEPT ![g] = "serialize"]
  /\ loc' = [loc EXCEPT ![g].trail = Append(@, "lock")]
  /\ UNCHANGED <<sink, recLevels, sb, writer, rec, ret, ncalls>>
  /\ UNCHANGED aggVars
  /\ UNCHANGED restVars

\* handler.Handle(ctx, record): the inner serializer appends the record to
\* the working buffer, or fails.
Serialize(g) ==
  /\ pc[g] = "serialize"
  /\ \E ok \in BOOLEAN :
       IF ok
       THEN /\ sb' = Append(sb, Fragment(Via(g), rec[g]))
            /\ pc' = [pc EXCEPT ![g] = "values"]
            /\ loc' = [loc EXCEPT ![g].trail = Append(@, "serialize")]
            /\ ret' = ret
       ELSE /\ sb' = sb
            /\ pc' = [pc EXCEPT ![g] = "unlock"]
            /\ loc' = [loc EXCEPT ![g].trail = Append(@, "serialize"), ![g].failed = "serialize"]
            /\ ret' = [ret EXCEPT ![g] = HandleError(Via(g), "serialize")]
  /\ UNCHANGED <<sink, recLevels, mu, writer, rec, ncalls, lockOrder>>
  /\ UNCHANGED aggVars
  /\ UNCHANGED restVars

\* GetPlaceholderValues(sb, record, placeholders, getKeyValue)
Values(g) ==
  /\ pc[g] = "values"
  /\ LET kv == GetKeyValue(Via(g), sb)
     IN /\ sb' = kv.buf
        /\ loc' = [loc EXCEPT ![g].level = kv.value, ![g].trail = Append(@, "values")]
  /\ pc' = [pc EXCEPT ![g] = "build"]
  /\ UNCHANGED <<sink, recLevels, mu, writer, rec, ret, ncalls, lockOrder>>
  /\ UNCHANGED aggVars
  /\ UNCHANGED restVars

\* buildOutput(...) in CustomHandler.Handle; json.Unmarshal over the value
\* map and json.Marshal in JSONHandler.Handle.
Build(g) ==
  /\ pc[g] = "build"
  /\ IF Via(g).typ \in TextTypes
     THEN /\ loc' = [loc EXCEPT ![g].output = BuildOutput(rec[g], loc[g], sb),
                                ![g].trail = Append(@, "build")]
          /\ pc' = [pc EXCEPT ![g] = "write"]
          /\ ret' = ret
     ELSE IF ValidJSON(sb)
     THEN /\ loc' = [loc EXCEPT ![g].output = MergeJSON(rec[g], loc[g], sb),
                                ![g].trail = Append(@, "build")]
          /\ pc' = [pc EXCEPT ![g] = "write"]
          /\ ret' = ret
     ELSE /\ loc' = [loc EXCEPT ![g].trail = Append(@, "build"), ![g].failed = "unmarshal"]
          /\ pc' = [pc EXCEPT ![g] = "unlock"]
          /\ ret' = [ret EXCEPT ![g] = HandleError(Via(g), "unmarshal")]
  /\ UNCHANGED <<sink, recLevels, sb, mu, writer, rec, ncalls, lockOrder>>
  /\ UNCHANGED aggVars
  /\ UNCHANGED restVars

\* writer.WriteString(output): the line goes to the bufio buffer unless the
\* writer has failed before or fails now; without a bufio writer,
\* CustomWrite if the handler has one, else "no writer available".
Write(g) ==
  /\ pc[g] = "write"
  /\ \E ok \in BOOLEAN :
       IF sink.writer = "bufio"
       THEN IF ok /\ ~writer.err
            THEN /\ writer' = [writer EXCEPT !.buf = Append(@, loc[g].output)]
                 /\ pc' = [pc EXCEPT ![g] = "flush"]
                 /\ loc' = [loc EXCEPT ![g].trail = Append(@, "write")]
                 /\ ret' = ret
            ELSE /\ writer' = [writer EXCEPT !.err = TRUE]
                 /\ pc' = [pc EXCEPT ![g] = "unlock"]
                 /\ loc' = [loc EXCEPT ![g].trail = Append(@, "write"), ![g].failed = "write"]
                 /\ ret' = [ret EXCEPT ![g] = HandleError(Via(g), "write")]
       ELSE IF sink.customWrite
            THEN IF ok
                 THEN /\ writer' = [writer EXCEPT !.out = Append(@, loc[g].output)]
                      /\ pc' = [pc EXCEPT ![g] = "unlock"]
                      /\ loc' = [loc EXCEPT ![g].trail = Append(@, "write")]
                      /\ ret' = ret
                 ELSE /\ writer' = writer
                      /\ pc' = [pc EXCEPT ![g] = "unlock"]
                      /\ loc' = [loc EXCEPT ![g].trail = Append(@, "write"), ![g].failed = "custom"]
                      /\ ret' = [ret EXCEPT ![g] = HandleError(Via(g), "custom")]
            ELSE /\ writer' = writer
                 /\ pc' = [pc EXCEPT ![g] = "unlock"]
                 /\ loc' = [loc EXCEPT ![g].failed = "nowriter"]
                 /\ ret' = [ret EXCEPT ![g] = HandleError(Via(g), "nowriter")]
  /\ UNCHANGED <<sink, recLevels, sb, mu, rec, ncalls, lockOrder>>
  /\ UNCHANGED aggVars
  /\ UNCHANGED restVars

\* writer.Flush(): the buffered lines reach the output, or the flush fails.
Flush(g) ==
  /\ pc[g] = "flush"
  /\ \E ok \in BOOLEAN :
       IF ok /\ ~writer.err
       THEN /\ writer' = [writer EXCEPT !.out = @ \o writer.buf, !.buf = <<>>]
            /\ loc' = [loc EXCEPT ![g].trail = Append(@, "flush")]
            /\ ret' = ret
       ELSE /\ writer' = [writer EXCEPT !.err = TRUE]
            /\ loc' = [loc EXCEPT ![g].trail = Append(@, "flush"), ![g].failed = "flush"]
            /\ ret' = [ret EXCEPT ![g] = HandleError(Via(g), "flush")]
  /\ pc' = [pc EXCEPT ![g] = "unlock"]
  /\ UNCHANGED <<sink, recLevels, sb, mu, rec, ncalls, lockOrder>>
  /\ UNCHANGED aggVars
  /\ UNCHANGED restVars

Unlock_NoReset(g) ==
  /\ pc[g] = "unlock"
  /\ sb' = sb
  /\ mu' = IF LocksSinkMutex(Via(g)) THEN 0 ELSE mu
  /\ pc' = [pc EXCEPT ![g] = "done"]
  /\ UNCHANGED <<sink, recLevels, writer, rec, loc, ret, ncalls, lockOrder>>
  /\ UNCHANGED aggVars
  /\ UNCHANGED restVars

\* The deferred calls: sb.Reset() and mu.Unlock().
Unlock(g) ==
  /\ pc[g] = "unlock"
  /\ sb' = <<>>
  /\ mu' = IF LocksSinkMutex(Via(g)) THEN 0 ELSE mu
  /\ pc' = [pc EXCEPT ![g] = "done"]
  /\ UNCHANGED <<sink, recLevels, writer, rec, loc, ret, ncalls, lockOrder>>
  /\ UNCHANGED aggVars
  /\ UNCHANGED restVars

SinkNext ==
  \/ \E g \in Procs : Start(g)
  \/ \E g \in Procs : Lock(g)
  \/ \E g \in Procs : Serialize(g)
  \/ \E g \in Procs : Values(g)
  \/ \E g \in Procs : Build(g)
  \/ \E g \in Procs : Write(g)
  \/ \E g \in Procs : Flush(g)
  \/ \E g \in Procs : Unlock(g)

\* One goroutine sends records of every severity to a sink of any kind.
SinkInit ==
  /\ AggInit
  /\ RestIdle
  /\ sink \in SinkConfigs
  /\ recLevels = Levels
  /\ SinkStart({1})

SinkSpec == SinkInit /\ [][SinkNext]_vars

\* All goroutines send records to one enabled text sink at level info.
ConcInit ==
  /\ AggInit
  /\ RestIdle
  /\ sink \in ConcurrentSinkConfigs
  /\ recLevels = {LevelDebug, LevelInfo}
  /\ SinkStart(Procs)

ConcSpec == ConcInit /\ [][SinkNext]_vars

\* Two goroutines send records to one enabled JSON sink.
RaceInit ==
  /\ AggInit
  /\ RestIdle
  /\ sink \in ConcurrentJSONConfigs
  /\ recLevels = {LevelDebug, LevelInfo}
  /\ SinkStart({1, 2})

RaceSpec == RaceInit /\ [][SinkNext]_vars

\* Goroutine 1 sends records to an enabled sink, text or JSON, and
\* goroutine 2 to the handler that the sink's WithAttrs returned.
DerivedInit ==
  /\ AggInit
  /\ RestIdle
  /\ \E c \in ConcurrentSinkConfigs \cup ConcurrentJSONConfigs :
       sink = [c EXCEPT !.derived = {2}]
  /\ recLevels = {LevelDebug, LevelInfo}
  /\ SinkStart({1, 2})

DerivedSpec == DerivedInit /\ [][SinkNext]_vars

----------------------------------------------------------------------------
(* Claims about the aggregator and NewLogger.                              *)

MinOf(S) == CHOOSE x \in S : \A y \in S : x <= y

\* C1: Aggregator.Handle invokes Handle exactly once on every child whose
\* Enabled(r.level) is true and never on a child whose Enabled(r.level) is
\* false, also on the children that come after a child whose Handle failed.
C1_FanOutComplete ==
  last.op = "Handle" =>
    LET a == loggers[last.lg]
    IN \A i \in DOMAIN a :
         last.calls[i] = IF HandlerEnabled(a[i], last.level) THEN 1 ELSE 0

\* A fan-out in which the first child failed and the second one was still
\* invoked once.
C1_Witness ==
  /\ last.op = "Handle"
  /\ Len(loggers[last.lg]) = 2
  /\ HandlerEnabled(loggers[last.lg][1], last.level) /\ loggers[last.lg][1].broken
  /\ HandlerEnabled(loggers[last.lg][2], last.level)
  /\ last.calls = <<1, 1>>
  /\ last.ret # Nil

\* C2: Aggregator.Handle returns the error of the lowest-index child whose
\* Handle returned an error, and nil exactly when no invoked child failed.
C2_FirstError ==
  last.op = "Handle" =>
    LET a == loggers[last.lg]
        failed == {i \in DOMAIN a : HandlerEnabled(a[i], last.level) /\ a[i].broken}
    IN IF failed = {} THEN last.ret = Nil
       ELSE last.ret = <<"error", MinOf(failed)>>

\* A fan-out in which two children failed; the first one's error is returned.
C2_Witness ==
  /\ last.op = "Handle"
  /\ Len(loggers[last.lg]) = 2
  /\ \A i \in {1, 2} :
       HandlerEnabled(loggers[last.lg][i], last.level) /\ loggers[last.lg][i].broken
  /\ last.ret = <<"error", 1>>

\* C3: Aggregator.Enabled(l) is true iff at least one child reports
\* Enabled(l); an aggregator without children is enabled for no level.
C3_OrGate ==
  last.op = "Enabled" =>
    LET a == loggers[last.lg]
    IN last.ret <=> (\E i \in DOMAIN a : HandlerEnabled(a[i], last.level))

\* Only the second child admits the level, and the aggregator is enabled.
C3_Witness ==
  /\ last.op = "Enabled"
  /\ Len(loggers[last.lg]) = 2
  /\ ~HandlerEnabled(loggers[last.lg][1], last.level)
  /\ HandlerEnabled(loggers[last.lg][2], last.level)
  /\ last.ret = TRUE

\* C4: Aggregator.WithAttrs / WithGroup return a new aggregator of the same
\* length whose i-th child is the derivation of the original's i-th child,
\* the original's child list stays as it was, and records handled through
\* the aggregator built from the sinks carry no attrs or groups.
C4_DeriveImmutable ==
  /\ last.op \in {"WithAttrs", "WithGroup"} =>
       /\ loggers[last.lg] = last.before
       /\ Len(loggers[last.new]) = Len(last.before)
       /\ \A i \in DOMAIN last.before :
            /\ loggers[last.new][i].id = last.before[i].id
            /\ loggers[last.new][i].level = last.before[i].level
            /\ loggers[last.new][i].enabled = last.before[i].enabled
            /\ loggers[last.new][i].ctx = Append(last.before[i].ctx, last.item)
  /\ (last.op = "Handle" /\ last.lg = 1) =>
       \A n \in DOMAIN last.lines : last.lines[n].ctx = <<>>

\* A record handled through the original aggregator after a derivation.
C4_Witness ==
  /\ Len(loggers) >= 2
  /\ Len(loggers[2]) > 0
  /\ last.op = "Handle"
  /\ last.lg = 1
  /\ Len(last.lines) > 0

\* C10 as stated: the logger's aggregator holds exactly the given handlers
\* whose options have enabled = true, in their original order.
C10_OnlyEnabledKept ==
  last.op = "NewLogger" =>
    loggers[1] = SelectSeq(handlers, LAMBDA h : h.enabled)

\* C10, amended: the logger's aggregator holds, in their original order,
\* exactly the ConsoleHandler / FileHandler / JSONHandler values whose
\* Handler is a *CustomHandler with enabled = true, and every handler of any
\* other type whatever its enabled flag.
C10_FilterByWrapper ==
  last.op = "NewLogger" =>
    LET a == loggers[1]
    IN /\ \A i \in DOMAIN a : a[i] \in {handlers[j] : j \in DOMAIN handlers}
       /\ \A i, j \in DOMAIN a : i < j => a[i].id < a[j].id
       /\ \A j \in DOMAIN handlers :
            (\E i \in DOMAIN a : a[i] = handlers[j]) <=>
              \/ handlers[j].typ \notin {"console", "file", "json"}
              \/ handlers[j].inner = "custom" /\ handlers[j].enabled

\* A disabled bare *CustomHandler is kept while a disabled console handler
\* is filtered out.
C10_Witness ==
  /\ last.op = "NewLogger"
  /\ Len(handlers) = 2
  /\ handlers[1].typ = "console" /\ ~handlers[1].enabled
  /\ handlers[2].typ = "custom" /\ ~handlers[2].enabled
  /\ Len(loggers[1]) = 1
  /\ loggers[1][1] = handlers[2]

----------------------------------------------------------------------------
(* Claims about one sink.                                                  *)

\* The name LevelNamesMap gives a severity.
LevelNameOf(level) == CHOOSE n \in LevelNames : LevelMap[n] = level

\* PERF < DEBUG < INFO < WARN < ERROR
PerfLowestRank ==
  [n \in LevelNames |->
     CASE n = "perf"  -> 0
       [] n = "debug" -> 1
       [] n = "info"  -> 2
       [] n = "warn"  -> 3
       [] n = "error" -> 4]

\* DEBUG < PERF < INFO < WARN < ERROR
DebugLowestRank ==
  [n \in LevelNames |->
     CASE n = "debug" -> 0
       [] n = "perf"  -> 1
       [] n = "info"  -> 2
       [] n = "warn"  -> 3
       [] n = "error" -> 4]

\* The records the sink's gate has decided on.
Called == {g \in Procs : rec[g].id # 0}

GateFollows(rank) ==
  \A g \in Called :
    sink.level \in LevelNames =>
      (rec[g].admitted <=>
         (sink.enabled /\ rank[LevelNameOf(rec[g].level)] >= rank[sink.level]))

\* C5, as stated: a sink at level L admits a record of level l iff the sink
\* is enabled and l >= L in the order PERF < DEBUG < INFO < WARN < ERROR.
C5_GatePerfLowest == GateFollows(PerfLowestRank)

\* C5, amended: a sink at level L admits a record of level l iff the sink is
\* enabled and l >= L in the order DEBUG < PERF < INFO < WARN < ERROR.
C5_GateDebugLowest == GateFollows(DebugLowestRank)

\* An enabled sink at level perf has refused a DEBUG record.
C5_Witness ==
  \E g \in Called :
    /\ pc[g] = "done"
    /\ sink.enabled
    /\ sink.level = "perf"
    /\ rec[g].level = LevelDebug
    /\ ~rec[g].admitted

Emitted == writer.out \o writer.buf

InOutput(id) == \E i \in 1..Len(writer.out) : writer.out[i].msg = id

\* C6: an enabled sink at level debug admits every PERF record, and a Handle
\* of a PERF record that returns nil has put the record's line, with the
\* record's own level, in the sink's output.
C6_DebugSinkWritesPerf ==
  (sink.enabled /\ sink.level = "debug") =>
    \A g \in Called :
      rec[g].level = LevelPerf =>
        /\ rec[g].admitted
        /\ (pc[g] = "done" /\ ret[g] = Nil) =>
             \E i \in 1..Len(writer.out) :
               writer.out[i].msg = rec[g].id /\ writer.out[i].level = rec[g].id

C6_Witness ==
  \E g \in Called :
    /\ sink.enabled /\ sink.level = "debug"
    /\ rec[g].level = LevelPerf
    /\ pc[g] = "done" /\ ret[g] = Nil
    /\ InOutput(rec[g].id)

\* The goroutines between mu.Lock() and the deferred mu.Unlock().
InCritical == {g \in Procs : pc[g] \in {"serialize", "values", "build", "write", "flush", "unlock"}}

\* A line made of one record only.
CleanLine(line) == line.level = line.msg /\ line.residue = <<line.msg>>

PosIn(seq, x) ==
  IF \E i \in 1..Len(seq) : seq[i] = x
  THEN CHOOSE i \in 1..Len(seq) : seq[i] = x
  ELSE 0

\* C7: on a console or text-file sink at most one goroutine is between the
\* lock and the unlock of Handle; every emitted line is made of one record;
\* no record is emitted twice; the lines are emitted in the order in which
\* their calls took the lock; and a Handle of an admitted record that
\* returned nil has its line in the output.
C7_TextSinkSerialized ==
  sink.typ \in TextTypes =>
    /\ Cardinality(InCritical) <= 1
    /\ \A g \in InCritical : mu = g
    /\ \A i \in 1..Len(Emitted) : CleanLine(Emitted[i])
    /\ \A i, j \in 1..Len(Emitted) :
         i < j =>
           /\ Emitted[i].msg # Emitted[j].msg
           /\ PosIn(lockOrder, Emitted[i].msg) # 0
           /\ PosIn(lockOrder, Emitted[i].msg) < PosIn(lockOrder, Emitted[j].msg)
    /\ \A g \in Called :
         (pc[g] = "done" /\ rec[g].admitted /\ ret[g] = Nil) => InOutput(rec[g].id)

\* A line is in the output while one goroutine, past the lock, is about to
\* write its line and another goroutine waits for the lock.
C7_Witness ==
  /\ sink.typ \in TextTypes
  /\ Len(writer.out) >= 1
  /\ \E g, h \in Procs : g # h /\ pc[g] = "lock" /\ mu = h /\ pc[h] = "write"

\* C8, as stated: on a JSON sink at most one goroutine is between the lock
\* and the unlock of Handle, and every emitted line is made of one record.
C8_JSONSinkSerialized ==
  sink.typ = "json" =>
    /\ Cardinality(InCritical) <= 1
    /\ \A i \in 1..Len(Emitted) : CleanLine(Emitted[i])

TextStages == {"serialize", "write", "flush"}

StagePrefix ==
  [st \in TextStages |->
     CASE st = "serialize" -> "failed to handle record"
       [] st = "write"     -> "failed to write log message"
       [] st = "flush"     -> "failed to flush writer"]

Failed == {g \in Procs : ret[g] # Nil}

\* C9, as stated: every error a sink's Handle returns is one of the three
\* stage prefixes.
C9_ThreePrefixes ==
  \A g \in Failed : \E st \in TextStages : ret[g] = StagePrefix[st]

\* C9, amended: an error of a console or text-file sink's Handle is the
\* prefix of the stage that failed, one of three; a serializer failure has
\* written nothing and a write failure is not followed by a flush.  A JSON
\* sink's Handle returns the same prefixes for these three stages, and
\* besides them "failed to unmarshal values", "no writer available" and the
\* error of CustomWrite as it is.
C9_StagePrefixes ==
  \A g \in Failed :
    /\ loc[g].failed # Nil
    /\ sink.typ \in TextTypes => loc[g].failed \in TextStages
    /\ loc[g].failed \in TextStages => ret[g] = StagePrefix[loc[g].failed]
    /\ loc[g].failed = "serialize" =>
         \A i \in 1..Len(Emitted) : Emitted[i].msg # rec[g].id
    /\ loc[g].failed = "write" =>
         \A i \in 1..Len(loc[g].trail) : loc[g].trail[i] # "flush"
    /\ loc[g].failed = "unmarshal" =>
         /\ sink.typ = "json"
         /\ ret[g] = "failed to unmarshal values"
         /\ \A i \in 1..Len(Emitted) : Emitted[i].msg # rec[g].id
    /\ loc[g].failed = "nowriter" =>
         /\ sink.typ = "json" /\ sink.writer = "none" /\ ~sink.customWrite
         /\ ret[g] = "no writer available"
    /\ loc[g].failed = "custom" =>
         /\ sink.typ = "json" /\ sink.writer = "none" /\ sink.customWrite
         /\ \A st \in TextStages : ret[g] # StagePrefix[st]

\* A text sink's write has failed after an earlier record was written, and
\* its Handle has returned.
C9_Witness ==
  \E g \in Failed :
    /\ sink.typ \in TextTypes
    /\ pc[g] = "done"
    /\ loc[g].failed = "write"
    /\ Len(writer.out) >= 1

----------------------------------------------------------------------------
(* The pattern formatter of the text sinks.  A pattern and a line are      *)
(* sequences of pieces of text; the working buffer is the sequence of the  *)
(* key=value fields the inner text serializer wrote.                       *)

MaxRenders == 2

DatePlaceholder == "[date]"
TimePlaceholder == "[time]"
DateTimePlaceholder == "[datetime]"
LevelPlaceholder == "[level]"
MsgPlaceholder == "[msg]"
PerfPlaceholder == "[perf]"
SourcePlaceholder == "[source]"

DefaultValuePrefixChar == ""
DefaultValueSuffixChar == ""
DefaultSuffixStartChar == "["
DefaultSuffixEndChar == "]"
DefaultPerfStartChar == "["
DefaultPerfEndChar == "]"

DefaultFormat == <<"[time]", " ", "[level]", " ", "[msg]">>
DefaultPerfFormat == <<"[time]", " ", "[level]", " ", "[perf]", " ", "[msg]">>
DefaultDebugFormat == <<"[time]", " ", "[level]", " ", "[perf]", " ", "[msg]", " ", "[source]">>
DefaultErrorFormat == <<"[time]", " ", "[level]", " ", "[msg]", " ", "[source]">>

\* The pieces of a pattern the regular expression \[[a-z]+\] matches.
PlaceholderShaped ==
  {DatePlaceholder, TimePlaceholder, DateTimePlaceholder, LevelPlaceholder,
   MsgPlaceholder, PerfPlaceholder, SourcePlaceholder, "[user]"}

\* GetPlaceholders(format)
GetPlaceholders(format) == SelectSeq(format, LAMBDA t : t \in PlaceholderShaped)

\* Contains(slice, item)
Contains(slice, item) == \E i \in 1..Len(slice) : slice[i] = item

getPatternForLevel(level, pattern) ==
  IF pattern # <<>> THEN pattern
  ELSE CASE level = LevelPerf  -> DefaultPerfFormat
         [] level = LevelDebug -> DefaultDebugFormat
         [] level = LevelError -> DefaultErrorFormat
         [] OTHER              -> DefaultFormat

\* strings.ToUpper(GetLevelName(level))
LevelUpper(level) ==
  CASE level = LevelDebug -> "DEBUG"
    [] level = LevelInfo  -> "INFO"
    [] level = LevelWarn  -> "WARN"
    [] level = LevelError -> "ERROR"
    [] level = LevelPerf  -> "PERF"
    [] OTHER              -> "UNKNOWN"

\* GetPerformanceMetrics()
GetPerformanceMetrics == "goroutines:3,alloc:0.4 MB"

\* The keys the replace function of NewCustomHandler drops from the
\* serializer's output.
KeysToRemove == {"time", "msg"}

\* The fields the inner text handler writes for a record: level, source
\* when AddSource is set, and the attributes the replace function keeps.
TextFields(o, r) ==
  <<[key |-> "level", val |-> LevelUpper(r.level)]>>
  \o (IF o.AddSource THEN <<[key |-> "source", val |-> "main.go:10:main.main"]>> ELSE <<>>)
  \o SelectSeq(r.attrs, LAMBDA a : a.key \notin KeysToRemove)

RECURSIVE FirstField(_, _, _)
FirstField(buf, key, i) ==
  IF i > Len(buf) THEN 0
  ELSE IF buf[i].key = key THEN i
  ELSE FirstField(buf, key, i + 1)

RemoveAt(seq, i) == [j \in 1..(Len(seq) - 1) |-> IF j < i THEN seq[j] ELSE seq[j + 1]]

\* CustomHandler.GetKeyValue(key, sb, removeKey): the value of the first
\* field with the key, and the buffer afterwards.
CustomHandler_GetKeyValue(key, buf, removeKey) ==
  LET i == FirstField(buf, key, 1)
  IN IF i = 0 THEN [value |-> "", buf |-> buf]
     ELSE [value |-> buf[i].val, buf |-> IF removeKey THEN RemoveAt(buf, i) ELSE buf]

\* The members of a JSON document as json.Unmarshal puts them in a map:
\* of two members with the same key the later one stays.
DedupLast(doc) ==
  LET keep == {i \in 1..Len(doc) : \A j \in (i + 1)..Len(doc) : doc[j].key # doc[i].key}
      RECURSIVE Pick(_)
      Pick(i) == IF i > Len(doc) THEN <<>>
                 ELSE (IF i \in keep THEN <<doc[i]>> ELSE <<>>) \o Pick(i + 1)
  IN Pick(1)

\* JSONHandler.GetKeyValue(key, sb, removeKey): the document is parsed,
\* the key read and deleted, and the document written back.
JSONHandler_GetKeyValue(key, buf, removeKey) ==
  LET m == DedupLast(buf)
      i == FirstField(m, key, 1)
  IN IF i = 0 THEN [value |-> "", buf |-> buf]
     ELSE [value |-> m[i].val, buf |-> IF removeKey THEN RemoveAt(m, i) ELSE m]

\* The getKeyValue parameter of GetPlaceholderValues and GetSourceValue:
\* ch.GetKeyValue in CustomHandler.Handle, jh.GetKeyValue in
\* JSONHandler.Handle.
getKeyValue(handler, key, buf, removeKey) ==
  IF handler = "json"
  THEN JSONHandler_GetKeyValue(key, buf, removeKey)
  ELSE CustomHandler_GetKeyValue(key, buf, removeKey)

UnknownSource == "unknown"
GenericLogFuncName == "multilog.(*Logger).log"

\* CallIdentifiers, each with the frame symbol PackagePrefix + identifier
\* is found in.
CallIdentifiers ==
  <<"multilog.(*Logger).Perf", "multilog.(*Logger).Perff", "multilog.(*Logger).Infof",
    "multilog.(*Logger).Warnf", "multilog.(*Logger).Debugf", "multilog.(*Logger).Errorf">>

\* GetOtherSourceValue(fn, file, line) for the frame of a caller:
\* DefaultPerfSourceFormat "[file]:[line]:[func]" filled in.
GetOtherSourceValue(fn) ==
  CASE fn = "main.work" -> "perf.go:7:main.work"
    [] fn = "main.run"  -> "call.go:5:main.run"
    [] fn = "main.main" -> "main.go:10:main.main"
    [] fn = "multilog.(*Logger).log"   -> "logger.go:97:multilog.(*Logger).log"
    [] fn = "multilog.(*Logger).Info"  -> "logger.go:141:multilog.(*Logger).Info"
    [] fn = "multilog.(*Logger).Infof" -> "logger.go:113:multilog.(*Logger).Infof"
    [] fn = "multilog.(*Logger).Perf"  -> "logger.go:103:multilog.(*Logger).Perf"
    [] fn = "multilog.(*Logger).Perff" -> "logger.go:108:multilog.(*Logger).Perff"

\* GetCallerInfo(identifiers...) over the frames of debug.Stack(), the
\* innermost first: the first frame of one of the identifiers is looked
\* for, and the frame after it (lines[i+2], lines[i+3]) is the caller.
RECURSIVE GetCallerInfo(_, _, _)
GetCallerInfo(stack, identifiers, i) ==
  IF i > Len(stack) THEN [fn |-> "unknown", found |-> FALSE]
  ELSE IF stack[i] \in identifiers THEN [fn |-> stack[i + 1], found |-> TRUE]
  ELSE GetCallerInfo(stack, identifiers, i + 1)

GetPerfCallerInfo(stack) ==
  GetCallerInfo(stack, {CallIdentifiers[1], CallIdentifiers[2]}, 1)

GetOtherCallerInfo(stack) ==
  GetCallerInfo(stack, {CallIdentifiers[i] : i \in 3..Len(CallIdentifiers)}, 1)

\* strings.HasSuffix(result, GenericLogFuncName)
HasGenericSuffix(result) == result = GetOtherSourceValue(GenericLogFuncName)

\* The branches of GetSourceValue on the level and on the source the
\* serializer emitted.
SourceValue_KeepsResult(level, result, stack) ==
  IF level = LevelPerf
  THEN (IF GetPerfCallerInfo(stack).found
        THEN GetOtherSourceValue(GetPerfCallerInfo(stack).fn)
        ELSE UnknownSource)
  ELSE result

SourceValue(level, result, stack) ==
  IF level = LevelPerf
  THEN (IF GetPerfCallerInfo(stack).found
        THEN GetOtherSourceValue(GetPerfCallerInfo(stack).fn)
        ELSE UnknownSource)
  ELSE IF result = "" \/ HasGenericSuffix(result)
  THEN (IF GetOtherCallerInfo(stack).found
        THEN GetOtherSourceValue(GetOtherCallerInfo(stack).fn)
        ELSE UnknownSource)
  ELSE result

\* The stack of a sink's Handle under a format-style call of the level.
CallStack(level) ==
  IF level = LevelPerf
  THEN <<GenericLogFuncName, CallIdentifiers[1], "main.work">>
  ELSE <<GenericLogFuncName, CallIdentifiers[3], "main.run">>

\* GetSourceValue(level, sb, getKeyValue)
GetSourceValue(handler, level, buf) ==
  LET kv == getKeyValue(handler, "source", buf, TRUE)
  IN [value |-> SourceValue(level, kv.value, CallStack(level)),
      buf |-> kv.buf]

\* One turn of the loop of GetPlaceholderValues.
PlaceholderValue(handler, placeholder, r, buf) ==
  CASE placeholder = DatePlaceholder     -> [value |-> "2025-05-29", buf |-> buf]
    [] placeholder = TimePlaceholder     -> [value |-> "10:10:09", buf |-> buf]
    [] placeholder = DateTimePlaceholder -> [value |-> "2025-05-29 10:10:09", buf |-> buf]
    [] placeholder = LevelPlaceholder    -> getKeyValue(handler, "level", buf, TRUE)
    [] placeholder = MsgPlaceholder      -> [value |-> r.msg, buf |-> buf]
    [] placeholder = PerfPlaceholder     -> [value |-> GetPerformanceMetrics, buf |-> buf]
    [] placeholder = SourcePlaceholder   -> GetSourceValue(handler, r.level, buf)

Switched ==
  {DatePlaceholder, TimePlaceholder, DateTimePlaceholder, LevelPlaceholder,
   MsgPlaceholder, PerfPlaceholder, SourcePlaceholder}

\* GetPlaceholderValues(sb, record, placeholders, getKeyValue): the value
\* map (a set of placeholder/value pairs, a later pair replacing an
\* earlier one of the same placeholder) and the buffer afterwards.
RECURSIVE GetPlaceholderValues(_, _, _, _, _, _)
GetPlaceholderValues(handler, buf, r, placeholders, i, values) ==
  IF i > Len(placeholders) THEN [values |-> values, buf |-> buf]
  ELSE LET ph == placeholders[i]
       IN IF ph \notin Switched
          THEN GetPlaceholderValues(handler, buf, r, placeholders, i + 1, values)
          ELSE LET pv == PlaceholderValue(handler, ph, r, buf)
               IN GetPlaceholderValues(handler, pv.buf, r, placeholders, i + 1,
                    {v \in values : v[1] # ph} \cup {<<ph, pv.value>>})

\* values[placeholder], "" when the map has no such key.
ValueOf(values, placeholder) ==
  IF \E v \in values : v[1] = placeholder
  THEN (CHOOSE v \in values : v[1] = placeholder)[2]
  ELSE ""

NonEmpty(pieces) == SelectSeq(pieces, LAMBDA t : t # "")

\* AddPrefixSuffix(value)
AddPrefixSuffix(value) ==
  NonEmpty(<<DefaultValuePrefixChar, value, DefaultValueSuffixChar>>)

\* strings.ReplaceAll(result, placeholder, value): every occurrence of the
\* placeholder's text in the result so far, text put there by an earlier
\* replacement included.
RECURSIVE ReplaceAll(_, _, _, _)
ReplaceAll(result, placeholder, value, i) ==
  IF i > Len(result) THEN <<>>
  ELSE (IF result[i] = placeholder THEN value ELSE <<result[i]>>)
       \o ReplaceAll(result, placeholder, value, i + 1)

\* The orders in which a range over the value map produces its keys.
RECURSIVE OrdersOf(_)
OrdersOf(keys) ==
  IF keys = {} THEN {<<>>}
  ELSE UNION {{<<k>> \o order : order \in OrdersOf(keys \ {k})} : k \in keys}

RangeOrders(values) == OrdersOf({v[1] : v \in values})

\* The loop of buildOutput: one strings.ReplaceAll for every placeholder
\* whose value is not empty, in the order the range produces them.
RECURSIVE ReplaceLoop(_, _, _, _)
ReplaceLoop(result, values, order, i) ==
  IF i > Len(order) THEN result
  ELSE ReplaceLoop(IF ValueOf(values, order[i]) # ""
                   THEN ReplaceAll(result, order[i],
                                   AddPrefixSuffix(ValueOf(values, order[i])), 1)
                   ELSE result,
                   values, order, i + 1)

PerfAppended_Always(level, pattern) == level = LevelPerf

\* buildOutput: whether the metrics block is written after the pattern.
PerfAppended(level, pattern) ==
  level = LevelPerf /\ ~Contains(GetPlaceholders(pattern), PerfPlaceholder)

RECURSIVE FieldsText(_, _)
FieldsText(buf, i) ==
  IF i > Len(buf) THEN <<>>
  ELSE (IF i > 1 THEN <<" ">> ELSE <<>>) \o <<buf[i].key, "=", buf[i].val>>
       \o FieldsText(buf, i + 1)

SuffixAppended_Always(buf) == TRUE

\* buildOutput: len(suffix) > 0
SuffixAppended(buf) == Len(buf) > 0

\* buildOutput(pattern, values, sb, level), the range over the values
\* taking the given order.
buildOutput(pattern, values, buf, level, order) ==
  ReplaceLoop(pattern, values, order, 1)
  \o (IF PerfAppended(level, pattern)
      THEN <<" ", DefaultPerfStartChar, GetPerformanceMetrics, DefaultPerfEndChar>>
      ELSE <<>>)
  \o (IF SuffixAppended(buf)
      THEN <<" ", DefaultSuffixStartChar>> \o FieldsText(buf, 1) \o <<DefaultSuffixEndChar>>
      ELSE <<>>)

\* The patterns a sink is configured with.
Patterns ==
  { <<>>,
    DefaultFormat,
    <<"[level]", " ", "[msg]">>,
    <<"[msg]", " ", "[perf]">>,
    <<"[perf]", "|", "[perf]">>,
    <<"[date]", " ", "[datetime]", " ", "[source]", " ", "[user]">> }

TextOptions ==
  { [Pattern |-> p, ValuePrefixChar |-> w[1], ValueSuffixChar |-> w[2], AddSource |-> a] :
      p \in Patterns, w \in {<<"", "">>, <<"<", ">">>}, a \in BOOLEAN }

\* The records rendered: a message (possibly empty, possibly the text of
\* a placeholder) and attributes.
RenderRecords ==
  { [level |-> l, msg |-> m, attrs |-> as] :
      l \in Levels, m \in {"", "hi", LevelPlaceholder},
      as \in {<<>>, <<[key |-> "user", val |-> "john"]>>} }

\* The part of CustomHandler.Handle between the serializer and the write.
Render(r) ==
  /\ rendered.n < MaxRenders
  /\ LET pattern == getPatternForLevel(r.level, opts.Pattern)
         pv == GetPlaceholderValues("text", TextFields(opts, r), r, GetPlaceholders(pattern), 1, {})
     IN /\ opts' = [opts EXCEPT !.Pattern = pattern]
        /\ \E line \in {buildOutput(pattern, pv.values, pv.buf, r.level, order) :
                           order \in RangeOrders(pv.values)} :
           rendered' = [n |-> rendered.n + 1,
                           given |-> rendered.given,
                           record |-> r,
                           pattern |-> pattern,
                           values |-> pv.values,
                           residue |-> pv.buf,
                           line |-> line]
  /\ UNCHANGED <<aggVars, sinkVars, configVars, facade>>

RenderNext == \E r \in RenderRecords : Render(r)

RenderInit ==
  /\ AggInit /\ SinkIdle /\ ConfigIdle /\ FacadeIdle
  /\ opts \in TextOptions
  /\ rendered = [n |-> 0, given |-> opts.Pattern, record |-> Nil, pattern |-> <<>>,
                 values |-> {}, residue |-> <<>>, line |-> <<>>]

RenderSpec == RenderInit /\ [][RenderNext]_vars

----------------------------------------------------------------------------
(* The line of the JSON sink: the value map of the placeholders merged     *)
(* with the document the inner serializer wrote.  A document and a value   *)
(* map are sequences and sets of key/value members.                        *)

DefaultPatternPlaceholders ==
  <<DateTimePlaceholder, LevelPlaceholder, MsgPlaceholder, SourcePlaceholder>>

\* The document the inner serializer of a JSON sink writes for a record:
\* the base attributes level, msg and (with AddSource) source, then the
\* attributes of the record in their order.
JSONFields(o, r) ==
  <<[key |-> "level", val |-> LevelUpper(r.level)],
    [key |-> "msg", val |-> r.msg]>>
  \o (IF o.AddSource THEN <<[key |-> "source", val |-> "main.go:10:main.main"]>> ELSE <<>>)
  \o r.attrs

\* RemovePlaceholderChars(values): a key that starts with "[" and ends
\* with "]" loses its first and its last character, k[1 : len(k)-1].
StripKey(k) ==
  CASE k = DatePlaceholder     -> "date"
    [] k = "[[key4]]"          -> "[key4]"
    [] k = "[key4]"            -> "key4"
    [] k = TimePlaceholder     -> "time"
    [] k = DateTimePlaceholder -> "datetime"
    [] k = LevelPlaceholder    -> "level"
    [] k = MsgPlaceholder      -> "msg"
    [] k = PerfPlaceholder     -> "perf"
    [] k = SourcePlaceholder   -> "source"
    [] OTHER                   -> k

\* The outcome of RemovePlaceholderChars for a map of placeholder keys,
\* whose stripped keys have no brackets left.
RemovePlaceholderChars(values) == {<<StripKey(v[1]), v[2]>> : v \in values}

\* The range loop of RemovePlaceholderChars over a map it changes: the
\* body for the entry of key k, which the iteration has not produced yet.
\* A key the body creates may be produced later or skipped.
RangeStep(k) ==
  /\ ~rendered.returned
  /\ k \in {v[1] : v \in rendered.values} \ rendered.produced
  /\ LET v == CHOOSE w \in rendered.values : w[1] = k
     IN rendered' =
          IF StripKey(k) # k
          THEN [rendered EXCEPT
                  !.produced = @ \cup {k},
                  !.created = @ \cup ({StripKey(k)} \ {w[1] : w \in rendered.values}),
                  !.values = {w \in @ : w[1] \notin {k, StripKey(k)}}
                               \cup {<<StripKey(k), v[2]>>}]
          ELSE [rendered EXCEPT !.produced = @ \cup {k}]
  /\ UNCHANGED <<aggVars, sinkVars, opts, configVars, facade>>

\* The loop ends when every entry is produced, but for the created ones.
RangeEnd ==
  /\ ~rendered.returned
  /\ {v[1] : v \in rendered.values} \ rendered.produced \subseteq rendered.created
  /\ rendered' = [rendered EXCEPT !.returned = TRUE]
  /\ UNCHANGED <<aggVars, sinkVars, opts, configVars, facade>>

\* The maps given to RemovePlaceholderChars: keys with no, one and two
\* pairs of brackets, each with a value of its own, no key the stripped
\* form of another.
StripInit ==
  /\ AggInit /\ SinkIdle /\ ConfigIdle /\ FacadeIdle
  /\ opts = Nil
  /\ \E ks \in SUBSET {MsgPlaceholder, LevelPlaceholder, PerfPlaceholder, SourcePlaceholder,
                        "[[key4]]", "[key4]", "key2", "user"} :
       /\ \A k \in ks : StripKey(k) = k \/ StripKey(k) \notin ks
       /\ rendered = [given |-> {<<k, k>> : k \in ks}, values |-> {<<k, k>> : k \in ks},
                      produced |-> {}, created |-> {}, returned |-> FALSE]

StripSpec ==
  StripInit /\ [][RangeEnd \/ \E v \in rendered.values : RangeStep(v[1])]_vars

\* GetSourceValue called once for a level, a source emitted by the
\* serializer and a stack.
ResolveSource ==
  /\ rendered.value = <<>>
  /\ rendered' = [rendered EXCEPT
                    !.value = <<SourceValue(rendered.level, rendered.result, rendered.stack)>>]
  /\ UNCHANGED <<aggVars, sinkVars, opts, configVars, facade>>

MaxFrames == 2

Frames ==
  {GenericLogFuncName, "multilog.(*Logger).Info", "multilog.(*Logger).Infof",
   "multilog.(*Logger).Perf", "multilog.(*Logger).Perff", "main.work", "main.run"}

\* The stacks: up to MaxFrames frames above the entry function of the
\* goroutine, which is not a method of the Logger.
Stacks ==
  UNION {{st \o <<e>> : st \in [1..n -> Frames], e \in {"main.main", "main.run"}} : n \in 0..MaxFrames}

SourceInit ==
  /\ AggInit /\ SinkIdle /\ ConfigIdle /\ FacadeIdle
  /\ opts = Nil
  /\ \E level \in Levels, stack \in Stacks,
        result \in {"", "main.go:10:main.main", GetOtherSourceValue(GenericLogFuncName)} :
       rendered = [level |-> level, result |-> result, stack |-> stack, value |-> <<>>]

SourceSpec == SourceInit /\ [][ResolveSource]_vars

\* json.Unmarshal(sb, &values): the members of the document are stored
\* in the value map, over the values of the same keys.
UnmarshalInto(doc, values) ==
  LET m == DedupLast(doc)
      keys == {m[i].key : i \in 1..Len(m)}
  IN {v \in values : v[1] \notin keys} \cup {<<m[i].key, m[i].val>> : i \in 1..Len(m)}

\* The options of a JSON sink: its placeholder list, none for the
\* default one, and whether the source is added.
JSONOptions ==
  { [PatternPlaceholders |-> pl, AddSource |-> a] :
      pl \in { <<>>, <<MsgPlaceholder>>, <<LevelPlaceholder, MsgPlaceholder>>,
               <<DateTimePlaceholder, LevelPlaceholder, SourcePlaceholder,
                 MsgPlaceholder, PerfPlaceholder>> },
      a \in BOOLEAN }

\* The records a JSON sink renders: attributes of any key.
JSONRecords ==
  { [level |-> l, msg |-> m, attrs |-> as] :
      l \in Levels, m \in {"", "hi"},
      as \in {<<>>, <<[key |-> "user", val |-> "john"]>>,
              <<[key |-> "msg", val |-> "other"]>>} }

\* The part of JSONHandler.Handle between the serializer and the write.
JSONRender(r) ==
  /\ rendered.n < MaxRenders
  /\ LET patternPlaceHolders ==
           IF Len(opts.PatternPlaceholders) = 0
           THEN DefaultPatternPlaceholders ELSE opts.PatternPlaceholders
         pv == GetPlaceholderValues("json", JSONFields(opts, r), r, patternPlaceHolders, 1, {})
         withPerf ==
           IF r.level = LevelPerf /\ ~Contains(opts.PatternPlaceholders, PerfPlaceholder)
           THEN {v \in pv.values : v[1] # PerfPlaceholder}
                  \cup {<<PerfPlaceholder, GetPerformanceMetrics>>}
           ELSE pv.values
     IN rendered' = [n |-> rendered.n + 1,
                     given |-> rendered.given,
                     record |-> r,
                     pattern |-> patternPlaceHolders,
                     values |-> withPerf,
                     residue |-> pv.buf,
                     line |-> UnmarshalInto(pv.buf, RemovePlaceholderChars(withPerf))]
  /\ UNCHANGED <<aggVars, sinkVars, opts, configVars, facade>>

JSONRenderNext == \E r \in JSONRecords : JSONRender(r)

JSONRenderInit ==
  /\ AggInit /\ SinkIdle /\ ConfigIdle /\ FacadeIdle
  /\ opts \in JSONOptions
  /\ rendered = [n |-> 0, given |-> opts.PatternPlaceholders, record |-> Nil, pattern |-> <<>>,
                 values |-> {}, residue |-> <<>>, line |-> {}]

JSONRenderSpec == JSONRenderInit /\ [][JSONRenderNext]_vars

----------------------------------------------------------------------------
(* Claims about the pattern formatter.                                     *)

RenderedOnce == rendered.n > 0

\* The default pattern of a level.
LevelDefault(level) ==
  CASE level = LevelDebug -> <<"[time]", " ", "[level]", " ", "[perf]", " ", "[msg]", " ", "[source]">>
    [] level = LevelError -> <<"[time]", " ", "[level]", " ", "[msg]", " ", "[source]">>
    [] level = LevelPerf  -> <<"[time]", " ", "[level]", " ", "[perf]", " ", "[msg]">>
    [] OTHER              -> <<"[time]", " ", "[level]", " ", "[msg]">>

\* C11, as stated: a text sink configured with the empty pattern renders
\* every record with the default pattern of the record's own level, whatever
\* it rendered before; a configured pattern that is not empty is used
\* unchanged for every record.
C11_PatternOfOwnLevel ==
  RenderedOnce =>
    rendered.pattern = (IF rendered.given = <<>>
                        THEN LevelDefault(rendered.record.level)
                        ELSE rendered.given)

IsPrefix(a, b) == Len(a) <= Len(b) /\ SubSeq(b, 1, Len(a)) = a

RECURSIVE Substituted(_, _, _, _, _)
Substituted(pattern, values, prefix, suffix, i) ==
  IF i > Len(pattern) THEN <<>>
  ELSE (IF \E v \in values : v[1] = pattern[i] /\ v[2] # ""
        THEN LET v == CHOOSE v \in values : v[1] = pattern[i]
             IN SelectSeq(<<prefix, v[2], suffix>>, LAMBDA t : t # "")
        ELSE <<pattern[i]>>)
       \o Substituted(pattern, values, prefix, suffix, i + 1)

\* C12, as stated: the line starts with the pattern in which every
\* placeholder with a non-empty value is replaced by the sink's
\* ValuePrefixChar + value + ValueSuffixChar and every placeholder with an
\* empty value is left as it is.
C12_ValueWrappedFromOptions ==
  RenderedOnce =>
    IsPrefix(Substituted(rendered.pattern, rendered.values,
                         opts.ValuePrefixChar, opts.ValueSuffixChar, 1),
             rendered.line)

Occurrences(seq, x) == Cardinality({i \in 1..Len(seq) : seq[i] = x})

\* The metrics blocks "[goroutines:...]" of a line.
MetricsBlocks(line) ==
  Cardinality({i \in 2..(Len(line) - 1) :
                 /\ line[i - 1] = "["
                 /\ line[i] = "goroutines:3,alloc:0.4 MB"
                 /\ line[i + 1] = "]"})

MetricsShown(line) == Occurrences(line, "goroutines:3,alloc:0.4 MB")

HasPerf(pattern) == \E i \in 1..Len(pattern) : pattern[i] = "[perf]"

RECURSIVE ResidueText(_, _)
ResidueText(buf, i) ==
  IF i > Len(buf) THEN <<>>
  ELSE (IF i > 1 THEN <<" ">> ELSE <<>>) \o <<buf[i].key, "=", buf[i].val>>
       \o ResidueText(buf, i + 1)

ResidueBlock(buf) ==
  IF buf = <<>> THEN <<>> ELSE <<" ", "[">> \o ResidueText(buf, 1) \o <<"]">>

\* C14: the line is the substituted pattern, then the metrics block if one
\* is appended, then ' [' + residue + ']' if and only if the working buffer
\* is not empty; with an empty buffer nothing follows.
C14_ResidueBlock ==
  RenderedOnce =>
    LET body == Substituted(rendered.pattern, rendered.values, "", "", 1)
        perf == IF rendered.record.level = LevelPerf /\ ~HasPerf(rendered.pattern)
                THEN 4 ELSE 0
        tail == ResidueBlock(rendered.residue)
    IN /\ Len(rendered.line) = Len(body) + perf + Len(tail)
       /\ SubSeq(rendered.line, Len(body) + perf + 1, Len(rendered.line)) = tail

\* A record with an attribute was rendered with its level taken out of the
\* buffer: the line ends with the attribute in brackets.
C14_Witness ==
  /\ RenderedOnce
  /\ rendered.residue = <<[key |-> "user", val |-> "john"]>>
  /\ Len(rendered.line) >= 6
  /\ SubSeq(rendered.line, Len(rendered.line) - 5, Len(rendered.line))
       = <<" ", "[", "user", "=", "john", "]">>

----------------------------------------------------------------------------
(* Claims about the line of the JSON sink.                                 *)

\* C15, as stated: the line a JSON sink emits for a record is one JSON
\* object (every key once) with a msg member, and that member is the
\* record's message, whatever attributes the record carries.
C15_MsgIsRecordMessage ==
  RenderedOnce =>
    /\ \A v, w \in rendered.line : v[1] = w[1] => v = w
    /\ <<"msg", rendered.record.msg>> \in rendered.line

----------------------------------------------------------------------------
(* The configuration builder: validation of the handler entries of a       *)
(* configuration, the options of one entry and the sinks of the enabled    *)
(* entries.  A string that the code splits or trims is the sequence of     *)
(* its pieces; an error is the text that tells it from the others; a      *)
(* pointer or slice that may be nil is a sequence of at most one value,    *)
(* empty for nil.                                                          *)

MaxEntries == 2

DefaultLogFileSize == 5
DefaultLogFileBackups == 1
DefaultLogFileAge == 1

LogLevels == {"debug", "info", "warn", "error", "perf"}

FileHandlerType == "file"
ConsoleHandlerType == "console"

TextHandlerSubType == "text"
JSONHandlerSubType == "json"

\* A HandlerConfig with nothing but the type, level, enabled flag, file
\* and subtype set.
HandlerConfig(type, subType, level, enabled, file) ==
  [Type |-> type, SubType |-> subType, Level |-> level, Enabled |-> enabled,
   UseSingleLetterLevel |-> FALSE, Pattern |-> <<>>, PatternPlaceholders |-> <<>>,
   ValuePrefixChar |-> "", ValueSuffixChar |-> "", File |-> file,
   MaxSize |-> 0, MaxBackups |-> 0, MaxAge |-> 0]

\* CustomHandlerOptions{}
EmptyOptions ==
  [Level |-> "", SubType |-> "", Enabled |-> FALSE, Pattern |-> <<>>,
   PatternPlaceholders |-> <<>>, AddSource |-> FALSE, UseSingleLetterLevel |-> FALSE,
   ValuePrefixChar |-> "", ValueSuffixChar |-> "", File |-> "",
   MaxSize |-> 0, MaxBackups |-> 0, MaxAge |-> 0]

defaultIfEmpty(value, defaultValue) ==
  IF Len(value) = 0 THEN defaultValue ELSE value

defaultIfZero_Identity(value, defaultValue) == value

defaultIfZero(value, defaultValue) ==
  IF value = 0 THEN defaultValue ELSE value

\* strings.Join(elems, ",")
Join(elems) ==
  LET RECURSIVE J(_)
      J(i) == IF i > Len(elems) THEN <<>>
              ELSE (IF i > 1 THEN <<",">> ELSE <<>>) \o <<elems[i]>> \o J(i + 1)
  IN J(1)

\* strings.Split(s, ","): the pieces between the commas, one more than
\* there are commas.
Split(str) ==
  LET RECURSIVE S(_, _)
      S(i, cur) == IF i > Len(str) THEN <<cur>>
                   ELSE IF str[i] = "," THEN <<cur>> \o S(i + 1, <<>>)
                   ELSE S(i + 1, Append(cur, str[i]))
  IN S(1, <<>>)

\* strings.TrimSpace(p)
TrimSpace(p) ==
  LET solid == {i \in 1..Len(p) : p[i] # " "}
      lo == CHOOSE i \in solid : \A j \in solid : i <= j
      hi == CHOOSE i \in solid : \A j \in solid : i >= j
  IN IF solid = {} THEN <<>> ELSE SubSeq(p, lo, hi)

TrimSpaces(placeholders) == [i \in 1..Len(placeholders) |-> TrimSpace(placeholders[i])]

\* Config.GetCustomHandlerOptionsForHandler(handlerConfig)
GetCustomHandlerOptionsForHandler(handlerConfig) ==
  LET options ==
        [Level |-> handlerConfig.Level,
         SubType |-> defaultIfEmpty(handlerConfig.SubType, TextHandlerSubType),
         Enabled |-> handlerConfig.Enabled,
         Pattern |-> defaultIfEmpty(handlerConfig.Pattern, DefaultFormat),
         PatternPlaceholders |->
           TrimSpaces(Split(defaultIfEmpty(handlerConfig.PatternPlaceholders,
                                           Join(DefaultPatternPlaceholders)))),
         AddSource |-> handlerConfig.Type = FileHandlerType,
         UseSingleLetterLevel |-> handlerConfig.UseSingleLetterLevel,
         ValuePrefixChar |-> defaultIfEmpty(handlerConfig.ValuePrefixChar, DefaultValuePrefixChar),
         ValueSuffixChar |-> defaultIfEmpty(handlerConfig.ValueSuffixChar, DefaultValueSuffixChar),
         File |-> handlerConfig.File,
         MaxSize |-> defaultIfZero(handlerConfig.MaxSize, DefaultLogFileSize),
         MaxBackups |-> defaultIfZero(handlerConfig.MaxBackups, DefaultLogFileBackups),
         MaxAge |-> defaultIfZero(handlerConfig.MaxAge, DefaultLogFileAge)]
  IN IF handlerConfig.Type # ConsoleHandlerType /\ handlerConfig.Type # FileHandlerType
     THEN [options |-> EmptyOptions, err |-> "unknown handlerConfig type"]
     ELSE [options |-> options, err |-> Nil]

validateHandler_LevelFirst(handler) ==
  IF handler.Level \notin LogLevels
    THEN "invalid log level"
  ELSE IF handler.Type # ConsoleHandlerType /\ handler.Type # FileHandlerType
    THEN "invalid handler type"
  ELSE IF handler.Type = FileHandlerType /\ handler.File = ""
    THEN "file handler requires a file"
  ELSE IF /\ handler.SubType # ""
          /\ handler.Type = FileHandlerType
          /\ handler.SubType # TextHandlerSubType
          /\ handler.SubType # JSONHandlerSubType
    THEN "invalid file handler subtype"
  ELSE Nil

\* validateHandler(handler): the error of the handler entry, Nil if none.
validateHandler(handler) ==
  IF handler.Type # ConsoleHandlerType /\ handler.Type # FileHandlerType
    THEN "invalid handler type"
  ELSE IF handler.Level \notin LogLevels
    THEN "invalid log level"
  ELSE IF handler.Type = FileHandlerType /\ handler.File = ""
    THEN "file handler requires a file"
  ELSE IF /\ handler.SubType # ""
          /\ handler.Type = FileHandlerType
          /\ handler.SubType # TextHandlerSubType
          /\ handler.SubType # JSONHandlerSubType
    THEN "invalid file handler subtype"
  ELSE Nil

\* validateHandlers(handlers): the loop from entry i on, with the console
\* entries counted before it; the error names the entry ("handler %d").
RECURSIVE validateHandlersFrom(_, _, _)
validateHandlersFrom(hs, i, consoleHandlerCount) ==
  IF i > Len(hs) THEN [entry |-> 0, err |-> Nil]
  ELSE LET count == IF hs[i].Type = ConsoleHandlerType
                    THEN consoleHandlerCount + 1 ELSE consoleHandlerCount
       IN IF hs[i].Type = ConsoleHandlerType /\ count > 1
          THEN [entry |-> i, err |-> "only one console handler is allowed"]
          ELSE IF validateHandler(hs[i]) # Nil
          THEN [entry |-> i, err |-> validateHandler(hs[i])]
          ELSE validateHandlersFrom(hs, i + 1, count)

validateHandlers(hs) == validateHandlersFrom(hs, 1, 0)

\* validateConfig(config): the error of validateHandlers, wrapped.
validateConfig(hs) == validateHandlers(hs)

\* NewConfigFromData(data), for data that decodes into the handler list
\* hs: the configuration, or no configuration and the error.
NewConfigFromData(hs) ==
  IF validateConfig(hs).err # Nil
  THEN [config |-> <<>>, err |-> validateConfig(hs)]
  ELSE [config |-> <<hs>>, err |-> validateConfig(hs)]

\* Config.GetEnabledHandlers()
GetEnabledHandlers(hs) == SelectSeq(hs, LAMBDA h : h.Enabled)

\* newFileHandler(options): the JSON or the text file sink of the options.
newFileHandler(options) ==
  IF options.SubType = JSONHandlerSubType
    THEN [handler |-> <<[sink |-> "json", options |-> options]>>, err |-> Nil]
  ELSE IF options.SubType = TextHandlerSubType
    THEN [handler |-> <<[sink |-> "file", options |-> options]>>, err |-> Nil]
  ELSE [handler |-> <<>>, err |-> "unknown handler subtype"]

\* createHandler(handlerType, options)
createHandler(handlerType, options) ==
  IF handlerType = ConsoleHandlerType
    THEN [handler |-> <<[sink |-> "console", options |-> options]>>, err |-> Nil]
  ELSE IF handlerType = FileHandlerType
    THEN newFileHandler(options)
  ELSE [handler |-> <<>>, err |-> "unknown handler type"]

RECURSIVE CreateHandlersFrom_Partial(_, _, _)
CreateHandlersFrom_Partial(enabledHandlers, i, hs) ==
  IF i > Len(enabledHandlers) THEN [handlers |-> <<hs>>, err |-> Nil]
  ELSE LET o == GetCustomHandlerOptionsForHandler(enabledHandlers[i])
           h == createHandler(enabledHandlers[i].Type, o.options)
       IN IF o.err # Nil THEN [handlers |-> <<hs>>, err |-> o.err]
          ELSE IF h.err # Nil THEN [handlers |-> <<hs>>, err |-> h.err]
          ELSE CreateHandlersFrom_Partial(enabledHandlers, i + 1, hs \o h.handler)

\* The loop of CreateHandlers from the enabled entry i on, hs the sinks
\* built so far.
RECURSIVE CreateHandlersFrom(_, _, _)
CreateHandlersFrom(enabledHandlers, i, hs) ==
  IF i > Len(enabledHandlers) THEN [handlers |-> <<hs>>, err |-> Nil]
  ELSE LET o == GetCustomHandlerOptionsForHandler(enabledHandlers[i])
           h == createHandler(enabledHandlers[i].Type, o.options)
       IN IF o.err # Nil THEN [handlers |-> <<>>, err |-> o.err]
          ELSE IF h.err # Nil THEN [handlers |-> <<>>, err |-> h.err]
          ELSE CreateHandlersFrom(enabledHandlers, i + 1, hs \o h.handler)

\* CreateHandlers(config)
CreateHandlers(hs) == CreateHandlersFrom(GetEnabledHandlers(hs), 1, <<>>)

\* The handler entries of the configurations: every type, level, subtype
\* and enabled flag, valid or not; a file only where the type is file.
HandlerEntries ==
  { HandlerConfig(FileHandlerType, st, l, e, f) :
      st \in {"", JSONHandlerSubType, "xml"},
      l \in {"info", "loud"}, e \in BOOLEAN, f \in {"", "app.log"} }
  \cup { HandlerConfig(ConsoleHandlerType, st, l, e, "") :
           st \in {"", JSONHandlerSubType, "xml"}, l \in {"info", "loud"}, e \in BOOLEAN }
  \cup { HandlerConfig("syslog", "", l, e, "") : l \in {"info", "loud"}, e \in BOOLEAN }

NothingBuilt == [load |-> <<>>, options |-> <<>>, sinks |-> <<>>]

\* config, err := NewConfigFromData(data)
Load ==
  /\ built.load = <<>>
  /\ built' = [built EXCEPT !.load = <<NewConfigFromData(config)>>]
  /\ UNCHANGED <<aggVars, sinkVars, renderVars, config, facade>>

\* handlers, err := CreateHandlers(&Config{...}), the configuration one
\* that was loaded or one that the caller built.
Create ==
  /\ built.sinks = <<>>
  /\ built' = [built EXCEPT !.sinks = <<CreateHandlers(config)>>]
  /\ UNCHANGED <<aggVars, sinkVars, renderVars, config, facade>>

\* options, err := config.GetCustomHandlerOptionsForHandler(handlerConfig)
Materialise(i) ==
  /\ built.options = <<>>
  /\ built' = [built EXCEPT !.options =
                 <<[of |-> config[i]] @@ GetCustomHandlerOptionsForHandler(config[i])>>]
  /\ UNCHANGED <<aggVars, sinkVars, renderVars, config, facade>>

ConfigNext == Load \/ Create

ConfigInit ==
  /\ AggInit /\ SinkIdle /\ RenderIdle /\ FacadeIdle
  /\ config \in UNION {[1..k -> HandlerEntries] : k \in 0..MaxEntries}
  /\ built = NothingBuilt

ConfigSpec == ConfigInit /\ [][ConfigNext]_vars

\* The handler entries whose options are materialised: every field at its
\* zero value or set.
OptionEntries ==
  { [HandlerConfig(t, st, "info", TRUE, IF t = FileHandlerType THEN "app.log" ELSE "")
       EXCEPT !.Pattern = p, !.PatternPlaceholders = pp, !.ValuePrefixChar = w[1],
              !.ValueSuffixChar = w[2], !.UseSingleLetterLevel = (w[1] # ""),
              !.MaxSize = ms, !.MaxBackups = mb, !.MaxAge = ma] :
      t \in {ConsoleHandlerType, FileHandlerType, "syslog"},
      st \in {"", JSONHandlerSubType},
      p \in {<<>>, <<"[msg]">>},
      pp \in {<<>>, <<"[level]", ",", " ", "[msg]", " ">>, <<" ">>},
      w \in {<<"", "">>, <<"<", ">">>},
      ms \in {0, 10}, mb \in {0, 3}, ma \in {0, 7} }

OptionsNext == \E i \in 1..Len(config) : Materialise(i)

OptionsInit ==
  /\ AggInit /\ SinkIdle /\ RenderIdle /\ FacadeIdle
  /\ \E h \in OptionEntries : config = <<h>>
  /\ built = NothingBuilt

OptionsSpec == OptionsInit /\ [][OptionsNext]_vars

----------------------------------------------------------------------------
(* Claims about the configuration builder.                                 *)

Loaded == built.load # <<>>
Created == built.sinks # <<>>
Materialised == built.options # <<>>

\* The checks of one handler entry in the order of the claim, each with
\* the error it reports.
CheckOrder ==
  <<"invalid handler type", "invalid log level",
    "file handler requires a file", "invalid file handler subtype">>

Fails(h, k) ==
  CASE k = 1 -> h.Type \notin {"console", "file"}
    [] k = 2 -> h.Level \notin {"debug", "info", "warn", "error", "perf"}
    [] k = 3 -> h.Type = "file" /\ h.File = ""
    [] k = 4 -> h.Type = "file" /\ h.SubType \notin {"", "text", "json"}

SurplusConsole(hs, i) ==
  hs[i].Type = "console" /\ \E j \in 1..(i - 1) : hs[j].Type = "console"

EntryFails(hs, i) == SurplusConsole(hs, i) \/ \E k \in 1..4 : Fails(hs[i], k)

\* C16: loading a configuration one of whose entries fails returns no
\* configuration and an error that names the first failing entry of the
\* list and, for an entry that fails its own checks, the first of type,
\* level, file, subtype that fails; with no failing entry the
\* configuration is returned without an error.
C16_FirstFailingCheck ==
  Loaded =>
    LET r == built.load[1]
        failing == {i \in 1..Len(config) : EntryFails(config, i)}
    IN IF failing = {}
       THEN r.err.err = Nil /\ r.config = <<config>>
       ELSE /\ r.config = <<>>
            /\ r.err.err # Nil
            /\ r.err.entry \in failing
            /\ \A i \in failing : r.err.entry <= i
            /\ ~SurplusConsole(config, r.err.entry) =>
                 \E k \in 1..4 : /\ r.err.err = CheckOrder[k]
                                 /\ Fails(config[r.err.entry], k)
                                 /\ \A j \in 1..(k - 1) : ~Fails(config[r.err.entry], j)

\* C16 witness: the load failed on the second entry, which fails both the
\* level and the file check, and the error is that of the level.
C16_Witness ==
  /\ Loaded
  /\ built.load[1].err.entry = 2
  /\ Fails(config[2], 2) /\ Fails(config[2], 3)
  /\ built.load[1].err.err = "invalid log level"
  /\ built.load[1].config = <<>>

Consoles(hs) == Cardinality({i \in 1..Len(hs) : hs[i].Type = "console"})

ConsoleSinks(list) == Cardinality({i \in 1..Len(list) : list[i].sink = "console"})

\* C17, as stated: loading a configuration with two console entries fails
\* with the error 'only one console handler', and no list of sinks that
\* CreateHandlers returns holds more than one console sink.
C17_AtMostOneConsole ==
  /\ Loaded /\ Consoles(config) >= 2 =>
       built.load[1].err.err = "only one console handler is allowed"
  /\ Created /\ built.sinks[1].handlers # <<>> =>
       ConsoleSinks(built.sinks[1].handlers[1]) <= 1

\* The pieces of a string without its commas and spaces.
Solid(str) == SelectSeq(str, LAMBDA c : c \notin {",", " "})

Commas(str) == Cardinality({i \in 1..Len(str) : str[i] = ","})

RECURSIVE Flatten(_)
Flatten(ss) == IF ss = <<>> THEN <<>> ELSE Head(ss) \o Flatten(Tail(ss))

\* C18: the options materialised from a handler entry of type console or
\* file have max_size 5, max_backups 1, max_age 1, pattern
\* '[time] [level] [msg]', subtype text and the placeholders [datetime],
\* [level], [msg], [source] where the entry leaves the field zero or
\* empty, and the entry's value otherwise (given placeholders split on
\* commas and trimmed); addSource is true exactly for type file.
C18_DefaultsApplied ==
  Materialised /\ built.options[1].err = Nil =>
    LET h == built.options[1].of
        o == built.options[1].options
    IN /\ o.MaxSize = IF h.MaxSize = 0 THEN 5 ELSE h.MaxSize
       /\ o.MaxBackups = IF h.MaxBackups = 0 THEN 1 ELSE h.MaxBackups
       /\ o.MaxAge = IF h.MaxAge = 0 THEN 1 ELSE h.MaxAge
       /\ o.Pattern = IF h.Pattern = <<>>
                      THEN <<"[time]", " ", "[level]", " ", "[msg]">> ELSE h.Pattern
       /\ o.SubType = IF h.SubType = "" THEN "text" ELSE h.SubType
       /\ IF h.PatternPlaceholders = <<>>
          THEN o.PatternPlaceholders =
                 << <<"[datetime]">>, <<"[level]">>, <<"[msg]">>, <<"[source]">> >>
          ELSE /\ Len(o.PatternPlaceholders) = Commas(h.PatternPlaceholders) + 1
               /\ Flatten(o.PatternPlaceholders) = Solid(h.PatternPlaceholders)
               /\ \A i \in 1..Len(o.PatternPlaceholders) :
                    LET piece == o.PatternPlaceholders[i]
                    IN piece # <<>> => piece[1] # " " /\ piece[Len(piece)] # " "
       /\ o.AddSource = (h.Type = "file")
       /\ o.Level = h.Level /\ o.File = h.File /\ o.Enabled = h.Enabled
       /\ o.UseSingleLetterLevel = h.UseSingleLetterLevel
       /\ o.ValuePrefixChar = h.ValuePrefixChar /\ o.ValueSuffixChar = h.ValueSuffixChar

\* C18 witness: options materialised from a file entry that leaves the
\* sizes and the pattern unset and gives its placeholders with spaces.
C18_Witness ==
  /\ Materialised
  /\ built.options[1].err = Nil
  /\ built.options[1].of.Type = "file"
  /\ built.options[1].of.MaxSize = 0 /\ built.options[1].of.MaxBackups = 0
  /\ built.options[1].of.MaxAge = 0 /\ built.options[1].of.Pattern = <<>>
  /\ built.options[1].of.PatternPlaceholders = <<"[level]", ",", " ", "[msg]", " ">>
  /\ built.options[1].options.PatternPlaceholders = << <<"[level]">>, <<"[msg]">> >>

\* The indices of the enabled entries, and the k-th of them.
EnabledIdx == {i \in 1..Len(config) : config[i].Enabled}

NthEnabled(k) ==
  CHOOSE i \in EnabledIdx : Cardinality({j \in EnabledIdx : j < i}) = k - 1

Unbuildable(h) ==
  \/ h.Type \notin {"console", "file"}
  \/ h.Type = "file" /\ h.SubType \notin {"", "text", "json"}

SinkOf(h) ==
  IF h.Type = "console" THEN "console" ELSE IF h.SubType = "json" THEN "json" ELSE "file"

\* C19: CreateHandlers returns, when an enabled entry has an unknown type
\* or an unknown file subtype, an error and a nil list; otherwise no error
\* and one sink for each enabled entry, in the order of the entries, with
\* the options of its entry.
C19_OneSinkPerEnabledEntry ==
  Created =>
    LET r == built.sinks[1]
    IN IF \E i \in EnabledIdx : Unbuildable(config[i])
       THEN r.err # Nil /\ r.handlers = <<>>
       ELSE /\ r.err = Nil
            /\ r.handlers # <<>>
            /\ Len(r.handlers[1]) = Cardinality(EnabledIdx)
            /\ \A k \in 1..Len(r.handlers[1]) :
                 /\ r.handlers[1][k].sink = SinkOf(config[NthEnabled(k)])
                 /\ r.handlers[1][k].options.Level = config[NthEnabled(k)].Level
                 /\ r.handlers[1][k].options.File = config[NthEnabled(k)].File

\* C19 witness: of two entries the first is disabled, and of an unknown
\* type, and the list returned holds the sink of the second alone.
C19_Witness ==
  /\ Created
  /\ Len(config) = 2
  /\ ~config[1].Enabled /\ Unbuildable(config[1])
  /\ built.sinks[1].err = Nil
  /\ built.sinks[1].handlers # <<>>
  /\ Len(built.sinks[1].handlers[1]) = 1

----------------------------------------------------------------------------
(* The log calls of the facade: a call builds a record, the text sink      *)
(* that admits it passes every attribute through ReplaceAttr, and what     *)
(* Handle returns is dropped.                                              *)

\* The attributes of the record of a call: Debug/Info/Warn/Error/Perf
\* ("structured") hand their arguments to slog as attributes; the ...f
\* and ...Context methods format them into the message with fmt.Sprintf.
RecordAttrs(variant, key, kind) ==
  IF variant = "structured" THEN <<[key |-> key, kind |-> kind]>> ELSE <<>>

\* The message of the record of a call with the message "m" and the
\* arguments key, value: the structured methods pass the message on, the
\* others pass fmt.Sprintf(msg, args...), which appends the arguments that
\* no verb of the message uses.
RecordMessage(variant, key, kind) ==
  IF variant = "structured" THEN <<"m">>
  ELSE <<"m", "%!(EXTRA ", "string=", key, ", ", kind, ")">>

\* The function returned by GenerateDefaultCustomReplaceAttr, applied to
\* a user attribute: a removed key returns first; for the key "level" the
\* value is asserted to be a slog.Level, which panics for any other value.
ReplaceAttrPanics(keysToRemove, a) ==
  /\ a.key \notin keysToRemove
  /\ a.key = "level"
  /\ a.kind # "Level"

\* One log call on a logger over a text sink h: "panic" if the call
\* panics, "returned" otherwise, whether the sink's write failed or not.
LogCallOutcome(h, level, attrs) ==
  IF /\ HandlerEnabled(h, level)
     /\ \E i \in 1..Len(attrs) : ReplaceAttrPanics(KeysToRemove, attrs[i])
  THEN "panic" ELSE "returned"

LogCall(variant, level, key, kind, writeFails) ==
  /\ facade.n < MaxCalls
  /\ facade.outcome # "panic"
  /\ facade' = [facade EXCEPT
                  !.n = @ + 1,
                  !.call = <<variant, level, key, kind>>,
                  !.record = [level |-> level,
                              msg |-> RecordMessage(variant, key, kind),
                              attrs |-> RecordAttrs(variant, key, kind)],
                  !.admitted = HandlerEnabled(facade.sink, level),
                  !.sinkErr = HandlerEnabled(facade.sink, level) /\ writeFails,
                  !.outcome = LogCallOutcome(facade.sink, level,
                                             RecordAttrs(variant, key, kind))]
  /\ UNCHANGED <<aggVars, sinkVars, renderVars, configVars>>

\* Logger.WithLevel(level): the logger returned is a copy of the receiver,
\* over the same slog.Logger and sinks; the level is not used.  The calls
\* that follow are made on the logger returned.
WithLevel(level) ==
  /\ facade.n = 0
  /\ facade.withLevel = <<>>
  /\ facade' = [facade EXCEPT !.withLevel = <<level>>]
  /\ UNCHANGED <<aggVars, sinkVars, renderVars, configVars>>

\* A call of any variant and level, its attribute keyed by a user key or
\* a built-in key, the value a string, a number or a slog.Level.
FacadeNext ==
  \/ \E level \in {LevelInfo, LevelError} : WithLevel(level)
  \/ \E variant \in {"structured", "format", "context"}, level \in Levels,
        key \in {"user", "time", "level", "msg", "source"},
        kind \in {"string", "int", "Level"}, writeFails \in BOOLEAN :
       LogCall(variant, level, key, kind, writeFails)

FacadeInit ==
  /\ AggInit /\ SinkIdle /\ RenderIdle /\ ConfigIdle
  /\ \E l \in LevelNames, e \in BOOLEAN :
       facade = [sink |-> [level |-> l, enabled |-> e], withLevel |-> <<>>, n |-> 0, call |-> <<>>,
                 record |-> [level |-> LevelInfo, msg |-> <<>>, attrs |-> <<>>],
                 admitted |-> FALSE, sinkErr |-> FALSE, outcome |-> Nil]

FacadeSpec == FacadeInit /\ [][FacadeNext]_vars

----------------------------------------------------------------------------
(* Claims about the log calls of the facade.                               *)

\* C20, as stated: no log call of the facade panics, whatever the variant
\* of the call, the level and the key and value of its attribute.
C20_NoCallPanics == facade.n > 0 => facade.outcome # "panic"

\* C21, as stated: a sink built from options that leave enabled unset
\* admits every record at or above its level.
C21_EnabledByDefault ==
  /\ facade.n > 0
  /\ facade.sink.enabled = EmptyOptions.Enabled
  /\ facade.call[2] >= GetSlogLevel(facade.sink.level)
  => facade.admitted

\* C22, as stated: the logger returned by WithLevel(L) emits no record
\* whose level is below L.
C22_WithLevelGates ==
  /\ facade.n > 0
  /\ facade.withLevel # <<>>
  /\ facade.call[2] < facade.withLevel[1]
  => ~facade.admitted

\* C23, as stated: the record of a call of a context variant is the
\* record of the structured call with the same level, message and
\* arguments: the same message, the arguments attached as attributes.
C23_ContextMirrorsStructured ==
  facade.n > 0 /\ facade.call[1] = "context" =>
    /\ facade.record.level = facade.call[2]
    /\ facade.record.msg = RecordMessage("structured", facade.call[3], facade.call[4])
    /\ facade.record.attrs = RecordAttrs("structured", facade.call[3], facade.call[4])

----------------------------------------------------------------------------
(* Claims about the working buffer of a sink between its Handle calls.     *)

\* C25: when the Handle calls made one after the other on a sink have
\* all returned, with nil or with the error of any stage, the working
\* buffer is empty, and every line that reached the writer holds in its
\* residue the attributes of its own record only.
C25_BufferEmptyOnReturn ==
  /\ (\A g \in Procs : pc[g] \in {"off", "idle", "done"}) => sb = <<>>
  /\ \A i \in 1..Len(Emitted) : Emitted[i].residue = <<Emitted[i].msg>>

\* C25 witness: a JSON sink has emitted a record, a later Handle failed at
\* the flush with the document still in the buffer, and has returned.
C25_Witness ==
  \E g \in Failed :
    /\ sink.typ = "json"
    /\ pc[g] = "done"
    /\ loc[g].failed = "flush"
    /\ rec[g].id >= 2
    /\ Len(writer.out) >= 1
    /\ sb = <<>>

----------------------------------------------------------------------------
(* Claims about the handlers derived from a sink by WithAttrs / WithGroup. *)

\* C24, as stated: the handler derived from a JSON sink builds one JSON
\* object per record and the handler derived from a console or text sink
\* a pattern-formatted line, as the sink itself does.
C24_DerivedKeepsVariant ==
  \A g \in Procs :
    pc[g] = "write" =>
      loc[g].output.format = IF sink.typ = "json" THEN "json" ELSE "pattern"

\* C28, as stated: Handle executions on a text sink and on the handler
\* derived from it are mutually exclusive, and every line that reaches
\* the writer is made of one record.
C28_DerivedSerialized ==
  sink.typ \in TextTypes =>
    /\ Cardinality(InCritical) <= 1
    /\ \A i \in 1..Len(Emitted) : CleanLine(Emitted[i])

----------------------------------------------------------------------------
(* Claims about RemovePlaceholderChars.                                    *)

\* C26, as stated: in the map RemovePlaceholderChars returns, every key
\* given with an outer pair of brackets has lost exactly that pair and
\* keeps its value, and every other key is there with its value.
C26_StripsOnePair ==
  rendered.returned =>
    rendered.values = {<<StripKey(v[1]), v[2]>> : v \in rendered.given}

----------------------------------------------------------------------------
(* Claims about the resolved source.                                       *)

FirstFrameOf(stack, symbols) ==
  IF \E i \in 1..Len(stack) : stack[i] \in symbols
  THEN CHOOSE i \in 1..Len(stack) :
         stack[i] \in symbols /\ \A j \in 1..(i - 1) : stack[j] \notin symbols
  ELSE 0

WalkedValue(stack, symbols) ==
  IF FirstFrameOf(stack, symbols) = 0 THEN "unknown"
  ELSE GetOtherSourceValue(stack[FirstFrameOf(stack, symbols) + 1])

\* C27: the resolved source is never empty; for a PERF record it is the
\* caller of the first Perf or Perff frame; for another record it is the
\* emitted source, unless that is empty or ends in the relay symbol, and
\* then the caller of the first Infof, Warnf, Debugf or Errorf frame; a
\* walk that finds no such frame gives "unknown".
C27_SourceResolved ==
  rendered.value # <<>> =>
    /\ rendered.value[1] # ""
    /\ rendered.level = LevelPerf =>
         rendered.value[1] =
           WalkedValue(rendered.stack, {"multilog.(*Logger).Perf", "multilog.(*Logger).Perff"})
    /\ (rendered.level # LevelPerf /\ rendered.result = "main.go:10:main.main") =>
         rendered.value[1] = rendered.result
    /\ (rendered.level # LevelPerf /\ rendered.result # "main.go:10:main.main") =>
         rendered.value[1] =
           WalkedValue(rendered.stack,
                       {"multilog.(*Logger).Infof", "multilog.(*Logger).Warnf",
                        "multilog.(*Logger).Debugf", "multilog.(*Logger).Errorf"})

\* A record that is not PERF, whose emitted source ends in the relay
\* symbol, logged through a structured call: no frame matches.
C27_Witness ==
  /\ rendered.value = <<"unknown">>
  /\ rendered.level = LevelInfo
  /\ rendered.result = "logger.go:97:multilog.(*Logger).log"
  /\ rendered.stack = <<"multilog.(*Logger).log", "multilog.(*Logger).Info", "main.run">>

----------------------------------------------------------------------------
(* Claims about the text of a rendered line.                               *)

\* The pattern with every placeholder replaced by its value, the text of
\* the values left as it is.
RECURSIVE Verbatim(_, _, _)
Verbatim(pattern, values, i) ==
  IF i > Len(pattern) THEN <<>>
  ELSE (IF ValueOf(values, pattern[i]) # ""
        THEN AddPrefixSuffix(ValueOf(values, pattern[i]))
        ELSE <<pattern[i]>>)
       \o Verbatim(pattern, values, i + 1)

\* C29, as stated: the line buildOutput yields for a pattern and a value
\* map starts with the pattern in which every placeholder stands replaced
\* by its value, the same on every run, the text of a value unmodified
\* also when it is the text of another placeholder.
C29_RenderedVerbatim ==
  rendered.n > 0 =>
    /\ Len(rendered.line) >= Len(Verbatim(rendered.pattern, rendered.values, 1))
    /\ SubSeq(rendered.line, 1, Len(Verbatim(rendered.pattern, rendered.values, 1)))
         = Verbatim(rendered.pattern, rendered.values, 1)

\* C30, as stated: every field of the residue the bracketed block is
\* built from is an attribute of the record; the built-in time, level, msg
\* and source are not among them.
C30_ResidueOwnAttributes ==
  rendered.n > 0 =>
    \A i \in 1..Len(rendered.residue) :
      /\ rendered.residue[i].key \notin {"time", "level", "msg", "source"}
      /\ \E j \in 1..Len(rendered.record.attrs) :
           rendered.record.attrs[j] = rendered.residue[i]

====
